---- MODULE Spec2Model ----
(***************************************************************************)
(* FlatGeoGraphBuf graph codec: the writer (serialize / buildGraphSection), *)
(* the offset locator, the batch reader (deserialize) and the streaming     *)
(* reader (deserializeGraphEdges), at byte level.                           *)
(*                                                                          *)
(* Representation of JavaScript values.  A value is a record                *)
(*   [t |-> tag, v |-> sequence of integers]                                *)
(*   "bool"  v = <<0>> or <<1>>                                             *)
(*   "num"   v = <<h>>, the number h / 2 (so 1.5 is <<3>>)                  *)
(*   "nan"   the number NaN                                                 *)
(*   "f64"   any other double, v = its 8 bytes (little-endian)              *)
(*   "str"   v = the code points of the string                              *)
(*   "null", "undef"                                                        *)
(*   "bin"   a Uint8Array, v = its bytes                                    *)
(*   "arr"   an array of numbers, v = the numbers (integers)                *)
(*   "obj"   a plain object with keys "0".."n-1", v = the values            *)
(*   "fn"    a function (a value of no supported property type)             *)
(* A property map is a sequence of [k |-> code points, val |-> value] with  *)
(* distinct keys, in the object's key iteration order.                      *)
(*                                                                          *)
(* Representation of a Uint8Array.  A Uint8Array is a view of `length`      *)
(* bytes on an ArrayBuffer that may go on behind the view (the result of   *)
(* big.subarray(0, n)); a DataView made of bytes.buffer reads on to the end *)
(* of the ArrayBuffer, while bytes[i], bytes.length, subarray and slice     *)
(* end with the view.  A Uint8Array is the sequence of the bytes of its     *)
(* ArrayBuffer from bytes.byteOffset on: the bytes of the view as they are  *)
(* (0..255), followed by the bytes behind the view, each held as            *)
(* 256 + byte.  A sequence of plain bytes is a Uint8Array that ends with    *)
(* its ArrayBuffer (new Uint8Array(n), slice).  The bytes in front of       *)
(* byteOffset are not held: no read has a negative offset.                  *)
(***************************************************************************)
EXTENDS Integers, Sequences, FiniteSets, TLC

\* ------------------------------------------------------------------ bounds
MaxEdges == 2
MaxFeatures == 2
MaxFeatureLen == 2

\* ------------------------------------------------------- program constants
SIZE_PREFIX_LEN == 4
ColByte == 0
ColUByte == 1
ColBool == 2
ColShort == 3
ColUShort == 4
ColInt == 5
ColUInt == 6
ColLong == 7
ColULong == 8
ColFloat == 9
ColDouble == 10
ColString == 11
ColJson == 12
ColDateTime == 13
ColBinary == 14

magicbytes == <<102, 103, 103, 1, 102, 103, 103, 0>>

MagicLen == Len(magicbytes)

fgbMagicBytes == <<102, 103, 98, 3, 102, 103, 98, 0>>

\* ------------------------------------------------------------- sequences
RECURSIVE Pow2(_)
Pow2(n) == IF n <= 0 THEN 1 ELSE 2 * Pow2(n - 1)

Abs(n) == IF n < 0 THEN -n ELSE n

Min(a, b) == IF a < b THEN a ELSE b

Max(a, b) == IF a > b THEN a ELSE b

Zeros(n) == [i \in 1..n |-> 0]

\* a length that lies beyond every buffer here
Huge == Pow2(30)

\* a size, a length or a count as far as an offset or a loop can tell it from
\* a greater one: every one of Huge or more (held as Huge, or below 0 when of
\* 2^31 or more, see getUint32) lies beyond every buffer here, and sums of
\* offsets stay within the integers
Clip(v) == IF v < 0 \/ v > Huge THEN Huge ELSE v

\* the mark of a byte of the ArrayBuffer behind the view: one more than
\* every byte
Behind == Pow2(8)

\* bytes.length: the bytes of the view, those in front of the first byte
\* behind it
Length(b) ==
    IF Len(b) = 0 \/ b[Len(b)] < Behind THEN Len(b)
    ELSE (CHOOSE i \in 1..Len(b) : b[i] >= Behind /\ (i = 1 \/ b[i - 1] < Behind)) - 1

\* the view of the first n bytes on the ArrayBuffer of b: b.subarray(0, n)
subarrayTo(b, n) ==
    [i \in 1..Len(b) |-> IF i > n /\ b[i] < Behind THEN b[i] + Behind ELSE b[i]]

\* the bytes [lo, hi) of bytes.subarray(lo, hi) / bytes.slice(lo, hi), with
\* 0-based bounds clamped to the view
Slice(b, lo, hi) ==
    LET l == Min(Max(lo, 0), Length(b))
        h == Min(Max(hi, 0), Length(b))
    IN  IF h <= l THEN <<>> ELSE [i \in 1..(h - l) |-> b[l + i]]

RECURSIVE Concat(_)
Concat(ss) == IF ss = <<>> THEN <<>> ELSE Head(ss) \o Concat(Tail(ss))

\* whether the sequence p occurs in s as a contiguous run
Contains(s, p) ==
    \E i \in 0..(Len(s) - Len(p)) : \A j \in 1..Len(p) : s[i + j] = p[j]

\* ------------------------------------------------------- primitive codec
\* DataView.setUint32(_, v, true): the four little-endian bytes of v
setUint32(v) ==
    <<v % 256, (v \div 256) % 256, (v \div 65536) % 256, (v \div 16777216) % 256>>

\* DataView.setUint16(_, v, true)
setUint16(v) == <<v % 256, (v \div 256) % 256>>

\* bytes[i]: the byte at 0-based index i, or -1 beyond the end of the view
\* (JS: undefined)
ByteAt(b, i) == IF i >= 0 /\ i < Len(b) /\ b[i + 1] < Behind THEN b[i + 1] ELSE -1

\* bytes[i] of a Uint8Array is undefined beyond its end, which equals no byte
isValidMagicBytes(bytes) ==
    \/ ByteAt(bytes, 0) = 102 /\ ByteAt(bytes, 1) = 103 /\ ByteAt(bytes, 2) = 103
    \/ ByteAt(bytes, 0) = 102 /\ ByteAt(bytes, 1) = 103 /\ ByteAt(bytes, 2) = 98

\* whether the n bytes at `at` lie within a DataView of bytes.buffer, which
\* ends with the ArrayBuffer (not with the view `bytes`); a read of bytes
\* that do not throws RangeError
viewHas(b, at, n) == at >= 0 /\ at + n <= Len(b)

\* the byte a DataView reads at 0-based index i of the ArrayBuffer
Octet(b, i) == b[i + 1] % Behind

\* DataView.getUint32(at, true) of four bytes within the view.  The integers
\* here have 32 bits: a value v below 2^31 is v, a value v of 2^31 or more is
\* held as v - 2^32 (the same 32 bits), so 00 00 00 FF, 4278190080, is
\* -16777216 and FF FF FF FF, 4294967295, is -1.
getUint32(b, at) ==
    Octet(b, at) + 256 * Octet(b, at + 1) + 65536 * Octet(b, at + 2)
        + 16777216 * (IF Octet(b, at + 3) >= 128 THEN Octet(b, at + 3) - 256
                      ELSE Octet(b, at + 3))

\* getUint32 where the value is a size or a length: -1 stands for the
\* RangeError of a read past the end of the ArrayBuffer
sizeAt(b, at) == IF viewHas(b, at, 4) THEN Clip(getUint32(b, at)) ELSE -1

\* DataView.getUint16(at, true), -1 for the RangeError
getUint16(b, at) ==
    IF at < 0 \/ at + 2 > Len(b) THEN -1
    ELSE Octet(b, at) + 256 * Octet(b, at + 1)

\* flatbuffers ByteBuffer.readUint32 (bytes_[offset + k]): a byte past the end
\* of `bytes` reads as 0; a value of 2^31 or more is held as for getUint32
readUint32(b, at) ==
    LET g(i) == IF ByteAt(b, i) < 0 THEN 0 ELSE ByteAt(b, i)
    IN  g(at) + 256 * g(at + 1) + 65536 * g(at + 2)
            + 16777216 * (IF g(at + 3) >= 128 THEN g(at + 3) - 256 ELSE g(at + 3))

\* ------------------------------------------------------------ JS values
V(t, v) == [t |-> t, v |-> v]

VTrue == V("bool", <<1>>)
VFalse == V("bool", <<0>>)
VNull == V("null", <<>>)
VUndef == V("undef", <<>>)
VNaN == V("nan", <<>>)
VFn == V("fn", <<>>)
VNum(h) == V("num", <<h>>)
VStr(cps) == V("str", cps)

\* "true", "false", "null", "NaN", "[object Object]" as code points
TxtTrue == <<116, 114, 117, 101>>
TxtFalse == <<102, 97, 108, 115, 101>>
TxtNull == <<110, 117, 108, 108>>
TxtNaN == <<78, 97, 78>>
TxtObject == <<91, 111, 98, 106, 101, 99, 116, 32, 79, 98, 106, 101, 99, 116, 93>>
\* source text of the function value VFn: ()=>1
FnSource == <<40, 41, 61, 62, 49>>

IsDigit(c) == c >= 48 /\ c <= 57

RECURSIVE DecDigits(_)
DecDigits(n) == IF n < 10 THEN <<48 + n>> ELSE DecDigits(n \div 10) \o <<48 + (n % 10)>>

\* template literal `${n}` of an integer n
IntToString(n) == IF n < 0 THEN <<45>> \o DecDigits(-n) ELSE DecDigits(n)

\* Number::toString of the number h / 2
NumToString(h) ==
    (IF h < 0 THEN <<45>> ELSE <<>>) \o DecDigits(Abs(h) \div 2)
        \o (IF Abs(h) % 2 = 1 THEN <<46, 53>> ELSE <<>>)

\* Array.prototype.join(",") of non-negative integers
RECURSIVE JoinInts(_)
JoinInts(ns) ==
    IF ns = <<>> THEN <<>>
    ELSE IF Len(ns) = 1 THEN DecDigits(ns[1])
    ELSE DecDigits(ns[1]) \o <<44>> \o JoinInts(Tail(ns))

RECURSIVE ParseNat(_)
\* the value of a string of decimal digits, -1 when it is not one
ParseNat(cps) ==
    IF cps = <<>> \/ Len(cps) > 6 \/ \E i \in 1..Len(cps) : ~IsDigit(cps[i]) THEN -1
    ELSE IF Len(cps) = 1 THEN cps[1] - 48
    ELSE 10 * ParseNat(SubSeq(cps, 1, Len(cps) - 1)) + (cps[Len(cps)] - 48)

\* String(value), as TextEncoder.encode applies it to a non-string argument
ToStringJS(val) ==
    CASE val.t = "bool" -> IF val.v[1] = 1 THEN TxtTrue ELSE TxtFalse
      [] val.t = "num" -> NumToString(val.v[1])
      [] val.t = "nan" -> TxtNaN
      [] val.t = "str" -> val.v
      [] val.t = "null" -> TxtNull
      [] val.t = "bin" -> JoinInts(val.v)
      [] val.t = "arr" -> JoinInts(val.v)
      [] val.t = "obj" -> TxtObject
      [] val.t = "fn" -> FnSource
      [] OTHER -> <<>>

\* StringToNumber for the strings of the model: "" is 0, a run of digits is its
\* value, every other string of the input domain is NaN
StringToNumber(cps) ==
    IF cps = <<>> THEN VNum(0)
    ELSE IF ParseNat(cps) >= 0 THEN VNum(2 * ParseNat(cps))
    ELSE VNaN

\* ToNumber(value), as DataView.setFloat64 applies it
ToNumberJS(val) ==
    CASE val.t = "bool" -> VNum(2 * val.v[1])
      [] val.t \in {"num", "nan", "f64"} -> val
      [] val.t = "str" -> StringToNumber(val.v)
      [] val.t = "null" -> VNum(0)
      [] val.t = "bin" -> StringToNumber(JoinInts(val.v))
      [] val.t = "arr" -> StringToNumber(JoinInts(val.v))
      [] OTHER -> VNaN

\* the 8 bytes of -0
MinusZero == <<0, 0, 0, 0, 0, 0, 0, 128>>

\* ToBoolean(value), as `value ? 1 : 0` applies it
Truthy(val) ==
    CASE val.t = "bool" -> val.v[1] = 1
      [] val.t = "num" -> val.v[1] # 0
      [] val.t = "nan" -> FALSE
      [] val.t = "f64" -> val.v # MinusZero
      [] val.t = "str" -> val.v # <<>>
      [] val.t \in {"null", "undef"} -> FALSE
      [] OTHER -> TRUE

\* value.length as the Binary case reads it: -1 stands for undefined
LengthOf(val) ==
    CASE val.t \in {"str", "bin", "arr"} -> Len(val.v)
      [] val.t = "fn" -> 0
      [] OTHER -> -1

\* ToUint8(ToNumber(element k)) for TypedArray.prototype.set(value, offset)
ElementByte(val, k) ==
    CASE val.t \in {"bin", "arr"} -> val.v[k] % 256
      [] val.t = "str" ->
            IF IsDigit(val.v[k]) THEN val.v[k] - 48 ELSE 0
      [] OTHER -> 0

\* ------------------------------------------------------------------ UTF-8
\* TextEncoder.encode of a string of code points below 65536
RECURSIVE Utf8Encode(_)
Utf8Encode(cps) ==
    IF cps = <<>> THEN <<>>
    ELSE LET c == Head(cps)
             one == IF c < 128 THEN <<c>>
                    ELSE IF c < 2048 THEN <<192 + (c \div 64), 128 + (c % 64)>>
                    ELSE <<224 + (c \div 4096), 128 + ((c \div 64) % 64), 128 + (c % 64)>>
         IN  one \o Utf8Encode(Tail(cps))

IsCont(b) == b >= 128 /\ b <= 191

\* TextDecoder.decode (not fatal): an ill-formed byte, or the valid start of a
\* three-byte form that is cut short, becomes U+FFFD.  The four-byte forms
\* (lead bytes F0..F4) are not modelled.
RECURSIVE Utf8Decode(_)
Utf8Decode(b) ==
    IF b = <<>> THEN <<>>
    ELSE LET c == b[1]
         IN  IF c < 128 THEN <<c>> \o Utf8Decode(Tail(b))
             ELSE IF c >= 194 /\ c <= 223 /\ Len(b) >= 2 /\ IsCont(b[2])
                  THEN <<(c - 192) * 64 + (b[2] - 128)>> \o Utf8Decode(SubSeq(b, 3, Len(b)))
             ELSE IF c >= 224 /\ c <= 239 /\ Len(b) >= 3 /\ IsCont(b[2]) /\ IsCont(b[3])
                     /\ (c # 224 \/ b[2] >= 160) /\ (c # 237 \/ b[2] <= 159)
                  THEN <<(c - 224) * 4096 + (b[2] - 128) * 64 + (b[3] - 128)>>
                           \o Utf8Decode(SubSeq(b, 4, Len(b)))
             ELSE IF c >= 224 /\ c <= 239 /\ Len(b) >= 2 /\ IsCont(b[2])
                     /\ (c # 224 \/ b[2] >= 160) /\ (c # 237 \/ b[2] <= 159)
                  THEN <<65533>> \o Utf8Decode(SubSeq(b, 3, Len(b)))
             ELSE <<65533>> \o Utf8Decode(Tail(b))

\* ---------------------------------------------------------------- float64
RECURSIVE FloorLog2(_)
FloorLog2(a) == IF a < 2 THEN 0 ELSE 1 + FloorLog2(a \div 2)

\* DataView.setFloat64(_, x, true) for x = h / 2 with |h| < 2^21, NaN, or
\* another double (its bytes): sign, 11-bit biased exponent, and the top 20
\* bits of the fraction (the low 32 bits are zero for the numbers h / 2)
EncodeFloat64(num) ==
    IF num.t = "nan" THEN <<0, 0, 0, 0, 0, 0, 248, 127>>
    ELSE IF num.t = "f64" THEN num.v
    ELSE LET h == num.v[1]
             a == Abs(h)
             s == IF h < 0 THEN 1 ELSE 0
             e2 == FloorLog2(a)
             E == e2 + 1022
             m20 == (a - Pow2(e2)) * Pow2(20 - e2)
         IN  IF a = 0 THEN Zeros(8)
             ELSE <<0, 0, 0, 0, m20 % 256, (m20 \div 256) % 256,
                    (E % 16) * 16 + (m20 \div 65536), s * 128 + (E \div 16)>>

\* DataView.getFloat64(at, true) of 8 bytes
DecodeFloat64(b) ==
    LET s == b[8] \div 128
        E == (b[8] % 128) * 16 + (b[7] \div 16)
        m20 == (b[7] % 16) * 65536 + b[6] * 256 + b[5]
        lowZero == b[1] = 0 /\ b[2] = 0 /\ b[3] = 0 /\ b[4] = 0
        e2 == E - 1022
        a == Pow2(e2) + (m20 \div Pow2(20 - e2))
    IN  IF E = 2047 /\ (m20 # 0 \/ ~lowZero) THEN VNaN
        ELSE IF E = 0 /\ m20 = 0 /\ lowZero /\ s = 0 THEN VNum(0)
        ELSE IF lowZero /\ e2 >= 0 /\ e2 <= 20 /\ m20 % Pow2(20 - e2) = 0
             THEN VNum(IF s = 1 THEN -a ELSE a)
        ELSE V("f64", b)

\* ------------------------------------------------------------------- JSON
\* the members "0":v1,"1":v2,... of a typed array or index-keyed object
RECURSIVE JoinMembers(_, _)
JoinMembers(ns, i) ==
    IF ns = <<>> THEN <<>>
    ELSE <<34>> \o DecDigits(i) \o <<34, 58>> \o DecDigits(ns[1])
            \o (IF Len(ns) = 1 THEN <<>> ELSE <<44>> \o JoinMembers(Tail(ns), i + 1))

\* JSON.stringify(value): [defined, text]; a function gives undefined.  The
\* strings of the model hold no quote, backslash or control character, so
\* quoting adds the two quotes only.
JsonStringify(val) ==
    CASE val.t = "bool" -> [defined |-> TRUE, text |-> IF val.v[1] = 1 THEN TxtTrue ELSE TxtFalse]
      [] val.t = "num" -> [defined |-> TRUE, text |-> NumToString(val.v[1])]
      [] val.t = "nan" -> [defined |-> TRUE, text |-> TxtNull]
      [] val.t = "null" -> [defined |-> TRUE, text |-> TxtNull]
      [] val.t = "str" -> [defined |-> TRUE, text |-> <<34>> \o val.v \o <<34>>]
      [] val.t = "arr" -> [defined |-> TRUE, text |-> <<91>> \o JoinInts(val.v) \o <<93>>]
      [] val.t \in {"bin", "obj"} ->
            [defined |-> TRUE, text |-> <<123>> \o JoinMembers(val.v, 0) \o <<125>>]
      [] OTHER -> [defined |-> FALSE, text |-> <<>>]

\* the pieces of s between separators sep
RECURSIVE SplitOn(_, _)
SplitOn(s, sep) ==
    IF \A i \in 1..Len(s) : s[i] # sep THEN <<s>>
    ELSE LET k == CHOOSE i \in 1..Len(s) :
                      s[i] = sep /\ \A j \in 1..(i - 1) : s[j] # sep
         IN  <<SubSeq(s, 1, k - 1)>> \o SplitOn(SubSeq(s, k + 1, Len(s)), sep)

\* a JSON number of the model: -?digits(.5)?, as halves; "bad" otherwise
JsonNumber(s) ==
    LET neg == s # <<>> /\ s[1] = 45
        u == IF neg THEN Tail(s) ELSE s
        half == Len(u) >= 2 /\ u[Len(u) - 1] = 46 /\ u[Len(u)] = 53
        ip == IF half THEN SubSeq(u, 1, Len(u) - 2) ELSE u
        n == ParseNat(ip)
        h == 2 * n + (IF half THEN 1 ELSE 0)
    IN  IF n < 0 \/ (Len(ip) > 1 /\ ip[1] = 48) THEN [ok |-> FALSE, val |-> VNull]
        ELSE [ok |-> TRUE, val |-> VNum(IF neg THEN -h ELSE h)]

\* JSON.parse(text): [ok, val]; ok = FALSE stands for the SyntaxError.  It
\* reads the texts JSON.stringify writes for the values of the model (no
\* white space, no escapes, arrays and index-keyed objects of integers).
JsonParse(s) ==
    LET bad == [ok |-> FALSE, val |-> VNull]
        inner == SubSeq(s, 2, Len(s) - 1)
        parts == SplitOn(inner, 44)
        member(i) == SplitOn(parts[i], 58)
    IN  IF s = TxtTrue THEN [ok |-> TRUE, val |-> VTrue]
        ELSE IF s = TxtFalse THEN [ok |-> TRUE, val |-> VFalse]
        ELSE IF s = TxtNull THEN [ok |-> TRUE, val |-> VNull]
        ELSE IF Len(s) >= 2 /\ s[1] = 34 /\ s[Len(s)] = 34
             THEN IF \E i \in 1..Len(inner) : inner[i] \in {34, 92} \/ inner[i] < 32
                  THEN bad ELSE [ok |-> TRUE, val |-> VStr(inner)]
        ELSE IF Len(s) >= 2 /\ s[1] = 91 /\ s[Len(s)] = 93
             THEN IF inner = <<>> THEN [ok |-> TRUE, val |-> V("arr", <<>>)]
                  ELSE IF \E i \in 1..Len(parts) : ParseNat(parts[i]) < 0 THEN bad
                  ELSE [ok |-> TRUE,
                        val |-> V("arr", [i \in 1..Len(parts) |-> ParseNat(parts[i])])]
        ELSE IF Len(s) >= 2 /\ s[1] = 123 /\ s[Len(s)] = 125
             THEN IF inner = <<>> THEN [ok |-> TRUE, val |-> V("obj", <<>>)]
                  ELSE IF \E i \in 1..Len(parts) :
                            \/ Len(member(i)) # 2
                            \/ member(i)[1] # <<34>> \o DecDigits(i - 1) \o <<34>>
                            \/ ParseNat(member(i)[2]) < 0
                       THEN bad
                  ELSE [ok |-> TRUE,
                        val |-> V("obj", [i \in 1..Len(parts) |-> ParseNat(member(i)[2])])]
        ELSE JsonNumber(s)

\* ----------------------------------------------------------------- errors
Err(kind, msg) == [kind |-> kind, msg |-> msg]

NoErr == Err("none", <<>>)

\* an error raised by the runtime (its message is the engine's)
RangeError == Err("RangeError", <<>>)
SyntaxError == Err("SyntaxError", <<>>)

\* "Invalid 'from' index: "
MsgInvalidFrom == <<73, 110, 118, 97, 108, 105, 100, 32, 39, 102, 114, 111, 109, 39, 32, 105, 110, 100, 101, 120, 58, 32>>
\* "Invalid 'to' index: "
MsgInvalidTo == <<73, 110, 118, 97, 108, 105, 100, 32, 39, 116, 111, 39, 32, 105, 110, 100, 101, 120, 58, 32>>
\* ". Must be between 0 and "
MsgMustBe == <<46, 32, 77, 117, 115, 116, 32, 98, 101, 32, 98, 101, 116, 119, 101, 101, 110, 32, 48, 32, 97, 110, 100, 32>>
\* "Self-loops are not allowed: from="
MsgSelfLoop == <<83, 101, 108, 102, 45, 108, 111, 111, 112, 115, 32, 97, 114, 101, 32, 110, 111, 116, 32, 97, 108, 108, 111, 119, 101, 100, 58, 32, 102, 114, 111, 109, 61>>
\* ", to="
MsgTo == <<44, 32, 116, 111, 61>>
\* "Unknown property type: "
MsgUnknownProperty == <<85, 110, 107, 110, 111, 119, 110, 32, 112, 114, 111, 112, 101, 114, 116, 121, 32, 116, 121, 112, 101, 58, 32>>
\* "Unknown column type: "
MsgUnknownColumn == <<85, 110, 107, 110, 111, 119, 110, 32, 99, 111, 108, 117, 109, 110, 32, 116, 121, 112, 101, 58, 32>>
\* "function"
TxtFunction == <<102, 117, 110, 99, 116, 105, 111, 110>>
\* "undefined"
TxtUndefined == <<117, 110, 100, 101, 102, 105, 110, 101, 100>>

\* ----------------------------------------------------------------- writer
\* the column type of a value, -1 where the code throws
valueToColumnType(value) ==
    CASE value.t = "bool" -> ColBool
      [] value.t \in {"num", "nan", "f64"} -> ColDouble
      [] value.t = "str" -> ColString
      [] value.t = "null" -> ColString
      [] value.t = "bin" -> ColBinary
      [] value.t \in {"arr", "obj"} -> ColJson
      [] OTHER -> -1

\* `typeof value` for the values valueToColumnType rejects
TypeofText(value) == IF value.t = "fn" THEN TxtFunction ELSE TxtUndefined

\* properties[name]: the value under the key, undefined when there is none
Lookup(properties, name) ==
    IF \E i \in 1..Len(properties) : properties[i].k = name
    THEN properties[CHOOSE i \in 1..Len(properties) : properties[i].k = name].val
    ELSE VUndef

\* the least element of a non-empty set of integers
Least(S) == CHOOSE i \in S : \A j \in S : i <= j

\* a variant that takes the first edge that has a property map, empty or not
firstEdgeWithPropsAny(edges) ==
    IF \A i \in 1..Len(edges) : ~edges[i].hasProps THEN 0
    ELSE Least({i \in 1..Len(edges) : edges[i].hasProps})

\* edges.find(e => e.properties && Object.keys(e.properties).length > 0):
\* the 1-based position of the first such edge, 0 when there is none
firstEdgeWithProps(edges) ==
    IF \A i \in 1..Len(edges) : ~edges[i].hasProps \/ Len(edges[i].properties) = 0
    THEN 0
    ELSE Least({i \in 1..Len(edges) : edges[i].hasProps /\ Len(edges[i].properties) > 0})

\* Object.keys(p).map(name => ({name, type: valueToColumnType(p[name])})):
\* the map throws at the first key whose value has no column type
columnsOf(p) ==
    IF \E j \in 1..Len(p) : valueToColumnType(p[j].val) < 0
    THEN [err |-> Err("Error", MsgUnknownProperty
                     \o TypeofText(p[Least({j \in 1..Len(p) :
                                               valueToColumnType(p[j].val) < 0})].val)),
          isNull |-> TRUE, cols |-> <<>>]
    ELSE [err |-> NoErr, isNull |-> FALSE,
          cols |-> [j \in 1..Len(p) |->
                      [name |-> p[j].k, type |-> valueToColumnType(p[j].val)]]]

columnsOfEdge(edges, f) ==
    IF f = 0 THEN [err |-> NoErr, isNull |-> TRUE, cols |-> <<>>]
    ELSE columnsOf(edges[f].properties)

\* [err, isNull, cols]: cols is the column list, isNull says the result is null
introspectEdgeColumns(edges) == columnsOfEdge(edges, firstEdgeWithProps(edges))

\* one column descriptor: [name-length u16][name bytes][type u8]
ColumnBytes(nameBytes, type) == setUint16(Len(nameBytes)) \o nameBytes \o <<type>>

ColumnBuffer(col) == ColumnBytes(Utf8Encode(col.name), col.type)

\* a variant that writes the column count only when there are columns
buildGraphHeaderBare(edgeCount, edgeColumns) ==
    setUint32(edgeCount)
        \o (IF edgeColumns.isNull THEN <<>>
            ELSE setUint16(Len(edgeColumns.cols))
                     \o Concat([i \in 1..Len(edgeColumns.cols) |->
                                  ColumnBuffer(edgeColumns.cols[i])]))

\* [edgeCount u32][columnCount u16][columns...]
buildGraphHeader(edgeCount, edgeColumns) ==
    setUint32(edgeCount)
        \o setUint16(IF edgeColumns.isNull THEN 0 ELSE Len(edgeColumns.cols))
        \o Concat([i \in 1..(IF edgeColumns.isNull THEN 0 ELSE Len(edgeColumns.cols)) |->
                     ColumnBuffer(edgeColumns.cols[i])])

\* prep(size): the capacity after making room, -1 where it throws (a size of
\* -1 stands for NaN: the capacity becomes NaN, the new array has length 0
\* and copying the old bytes into it raises a RangeError)
prep(offset, size, capacity) ==
    IF size < 0 \/ capacity < 0 THEN -1
    ELSE IF offset + size < capacity THEN capacity
    ELSE Max(capacity + size, capacity * 2)

\* [len u32][bytes]
Prefixed(payload) ==
    [size |-> 4 + Len(payload), bytes |-> setUint32(Len(payload)) \o payload, known |-> TRUE]

\* the Binary case: value.length, then bytes.set(value, offset)
BinaryOf(value, blen) ==
    IF blen < 0 THEN [size |-> -1, bytes |-> <<>>, known |-> TRUE]
    ELSE Prefixed([k \in 1..blen |-> ElementByte(value, k)])

\* textEncoder.encode(JSON.stringify(value)); encode(undefined) is empty
JsonText(js) == IF js.defined THEN js.text ELSE <<>>

\* the bytes one case of the switch writes after the column ordinal:
\* [size, bytes, known]; size is the argument of prep (-1 for NaN).  The
\* column types the writer never infers (Short .. Float) are left out.
EncodeValue(type, value) ==
    CASE type = ColBool ->
            [size |-> 1, bytes |-> <<IF Truthy(value) THEN 1 ELSE 0>>, known |-> TRUE]
      [] type = ColDouble ->
            [size |-> 8, bytes |-> EncodeFloat64(ToNumberJS(value)), known |-> TRUE]
      [] type \in {ColString, ColDateTime} -> Prefixed(Utf8Encode(ToStringJS(value)))
      [] type = ColJson -> Prefixed(Utf8Encode(JsonText(JsonStringify(value))))
      [] type = ColBinary -> BinaryOf(value, LengthOf(value))
      [] OTHER -> [size |-> 0, bytes |-> <<>>, known |-> FALSE]

InitialCapacity == 256

\* the body of the loop for a value that is neither null nor undefined:
\* acc = [bytes, capacity, err], bytes being the first `offset` bytes written
writeEntry(acc, i, type, p, capacity) ==
    IF ~p.known
    THEN [acc EXCEPT !.err = Err("Error", MsgUnknownColumn \o IntToString(type))]
    ELSE IF capacity < 0 THEN [acc EXCEPT !.err = RangeError]
    ELSE [bytes |-> acc.bytes \o setUint16(i - 1) \o p.bytes, capacity |-> capacity,
          err |-> NoErr]

encodeEntry(acc, i, type, p) ==
    writeEntry(acc, i, type, p,
               prep(Len(acc.bytes) + 2, p.size, prep(Len(acc.bytes), 2, acc.capacity)))

encodeColumn(acc, i, column, value) ==
    IF value.t \in {"null", "undef"} THEN acc
    ELSE encodeEntry(acc, i, column.type, EncodeValue(column.type, value))

\* a variant that walks the columns from the last to the first
RECURSIVE encodeColumnsDescending(_, _, _, _)
encodeColumnsDescending(properties, cols, i, acc) ==
    IF i > Len(cols) \/ acc.err.kind # "none" THEN acc
    ELSE encodeColumnsDescending(properties, cols, i + 1,
             encodeColumn(acc, Len(cols) + 1 - i, cols[Len(cols) + 1 - i],
                          Lookup(properties, cols[Len(cols) + 1 - i].name)))

\* the loop over the columns, from column i (1-based) on
RECURSIVE encodeColumns(_, _, _, _)
encodeColumns(properties, cols, i, acc) ==
    IF i > Len(cols) \/ acc.err.kind # "none" THEN acc
    ELSE encodeColumns(properties, cols, i + 1,
                       encodeColumn(acc, i, cols[i], Lookup(properties, cols[i].name)))

\* bytes.slice(0, offset)
sliceWritten(r) == [err |-> r.err, bytes |-> r.bytes]

\* [err, bytes]: the property region of one edge
encodeEdgeProperties(edge, columns) ==
    IF columns.isNull \/ Len(columns.cols) = 0 \/ ~edge.hasProps
    THEN [err |-> NoErr, bytes |-> <<>>]
    ELSE sliceWritten(encodeColumns(edge.properties, columns.cols, 1,
                         [bytes |-> <<>>, capacity |-> InitialCapacity, err |-> NoErr]))

\* a variant whose size field counts its own four bytes
edgeRecordInclusive(edge, props) ==
    IF props.err.kind # "none" THEN [err |-> props.err, bytes |-> <<>>]
    ELSE [err |-> NoErr,
          bytes |-> setUint32(SIZE_PREFIX_LEN + 8 + Len(props.bytes)) \o setUint32(edge.from)
                        \o setUint32(edge.to) \o props.bytes]

\* [size u32][from u32][to u32][properties]
edgeRecord(edge, props) ==
    IF props.err.kind # "none" THEN [err |-> props.err, bytes |-> <<>>]
    ELSE [err |-> NoErr,
          bytes |-> setUint32(8 + Len(props.bytes)) \o setUint32(edge.from)
                        \o setUint32(edge.to) \o props.bytes]

\* "<what>N. Must be between 0 and M"
IndexMessage(what, index, featureCount) ==
    what \o IntToString(index) \o MsgMustBe \o IntToString(featureCount - 1)

\* a variant whose upper bounds are off by one
buildEdgeRecordLoose(edge, columns, featureCount) ==
    IF edge.from < 0 \/ edge.from > featureCount
    THEN [err |-> Err("Error", IndexMessage(MsgInvalidFrom, edge.from, featureCount)),
          bytes |-> <<>>]
    ELSE IF edge.to < 0 \/ edge.to > featureCount
    THEN [err |-> Err("Error", IndexMessage(MsgInvalidTo, edge.to, featureCount)),
          bytes |-> <<>>]
    ELSE IF edge.from = edge.to
    THEN [err |-> Err("Error", MsgSelfLoop \o IntToString(edge.from) \o MsgTo
                                  \o IntToString(edge.to)),
          bytes |-> <<>>]
    ELSE edgeRecord(edge, encodeEdgeProperties(edge, columns))

\* a variant that tests for a self-loop before it tests the range
buildEdgeRecordLoopFirst(edge, columns, featureCount) ==
    IF edge.from = edge.to
    THEN [err |-> Err("Error", MsgSelfLoop \o IntToString(edge.from) \o MsgTo
                                  \o IntToString(edge.to)),
          bytes |-> <<>>]
    ELSE IF edge.from < 0 \/ edge.from >= featureCount
    THEN [err |-> Err("Error", IndexMessage(MsgInvalidFrom, edge.from, featureCount)),
          bytes |-> <<>>]
    ELSE IF edge.to < 0 \/ edge.to >= featureCount
    THEN [err |-> Err("Error", IndexMessage(MsgInvalidTo, edge.to, featureCount)),
          bytes |-> <<>>]
    ELSE edgeRecord(edge, encodeEdgeProperties(edge, columns))

\* [err, bytes]
buildEdgeRecord(edge, columns, featureCount) ==
    IF edge.from < 0 \/ edge.from >= featureCount
    THEN [err |-> Err("Error", IndexMessage(MsgInvalidFrom, edge.from, featureCount)),
          bytes |-> <<>>]
    ELSE IF edge.to < 0 \/ edge.to >= featureCount
    THEN [err |-> Err("Error", IndexMessage(MsgInvalidTo, edge.to, featureCount)),
          bytes |-> <<>>]
    ELSE IF edge.from = edge.to
    THEN [err |-> Err("Error", MsgSelfLoop \o IntToString(edge.from) \o MsgTo
                                  \o IntToString(edge.to)),
          bytes |-> <<>>]
    ELSE edgeRecord(edge, encodeEdgeProperties(edge, columns))

pushRecord(acc, r) ==
    IF r.err.kind # "none" THEN [err |-> r.err, bufs |-> <<>>]
    ELSE [err |-> NoErr, bufs |-> Append(acc.bufs, r.bytes)]

\* edges.map(buildEdgeRecord) from edge i on: the records in order, or the
\* error of the first edge that throws; acc = [err, bufs]
RECURSIVE buildEdgeBuffers(_, _, _, _, _)
buildEdgeBuffers(edges, columns, featureCount, i, acc) ==
    IF i > Len(edges) \/ acc.err.kind # "none" THEN acc
    ELSE buildEdgeBuffers(edges, columns, featureCount, i + 1,
                          pushRecord(acc, buildEdgeRecord(edges[i], columns, featureCount)))

\* a variant whose size prefix counts the prefix too
assembleSectionInclusive(graphHeader, edgeBuffers) ==
    IF edgeBuffers.err.kind # "none" THEN [err |-> edgeBuffers.err, bytes |-> <<>>]
    ELSE [err |-> NoErr,
          bytes |-> setUint32(SIZE_PREFIX_LEN + Len(graphHeader)) \o graphHeader
                        \o Concat(edgeBuffers.bufs)]

\* [header-size u32][graph header][edge records]
assembleSection(graphHeader, edgeBuffers) ==
    IF edgeBuffers.err.kind # "none" THEN [err |-> edgeBuffers.err, bytes |-> <<>>]
    ELSE [err |-> NoErr,
          bytes |-> setUint32(Len(graphHeader)) \o graphHeader \o Concat(edgeBuffers.bufs)]

\* a variant that validates the edges before it looks at the schema
sectionWithValidationFirst(edges, featureCount, edgeColumns) ==
    IF buildEdgeBuffers(edges, [isNull |-> TRUE, cols |-> <<>>], featureCount, 1,
                        [err |-> NoErr, bufs |-> <<>>]).err.kind # "none"
    THEN [err |-> buildEdgeBuffers(edges, [isNull |-> TRUE, cols |-> <<>>], featureCount, 1,
                                   [err |-> NoErr, bufs |-> <<>>]).err,
          bytes |-> <<>>]
    ELSE IF edgeColumns.err.kind # "none" THEN [err |-> edgeColumns.err, bytes |-> <<>>]
    ELSE assembleSection(buildGraphHeader(Len(edges), edgeColumns),
                         buildEdgeBuffers(edges, edgeColumns, featureCount, 1,
                                          [err |-> NoErr, bufs |-> <<>>]))

\* introspectEdgeColumns is called first: its error ends buildGraphSection
sectionWith(edges, featureCount, edgeColumns) ==
    IF edgeColumns.err.kind # "none" THEN [err |-> edgeColumns.err, bytes |-> <<>>]
    ELSE assembleSection(buildGraphHeader(Len(edges), edgeColumns),
                         buildEdgeBuffers(edges, edgeColumns, featureCount, 1,
                                          [err |-> NoErr, bufs |-> <<>>]))

\* [err, bytes]
buildGraphSection(edges, featureCount) ==
    sectionWith(edges, featureCount, introspectEdgeColumns(edges))

\* ------------------------------------------------------- feature section
\* The FlatGeobuf feature codec is an external collaborator.  A feature is
\* given by its encoded body; the header body holds the feature count and the
\* index node size (always 0 for this writer) in one byte each.
FeatureHeaderBody(features) == <<Len(features), 0>>

\* buildHeader: the size-prefixed feature header
buildHeader(features) ==
    setUint32(Len(FeatureHeaderBody(features))) \o FeatureHeaderBody(features)

\* buildFeature: one size-prefixed feature
buildFeature(body) == setUint32(Len(body)) \o body

\* a byte of the header, 0 past the end of the buffer
HeaderByte(bytes, at) == IF ByteAt(bytes, at) < 0 THEN 0 ELSE ByteAt(bytes, at)

\* fromByteBuffer at position magicbytes.length: the header's fields
fromByteBuffer(bytes) ==
    [featuresCount |-> HeaderByte(bytes, MagicLen + SIZE_PREFIX_LEN),
     indexNodeSize |-> HeaderByte(bytes, MagicLen + SIZE_PREFIX_LEN + 1)]

\* calcTreeSize(featuresCount, indexNodeSize): bytes of the packed R-tree;
\* the writer never emits an index, and the buffers of the model have none
calcTreeSize(numItems, nodeSize) == 0

\* ------------------------------------------------------------- serialize
\* magic + feature header + features
\* a variant that opens the buffer with the FlatGeobuf magic
featureBytesFgb(features) ==
    fgbMagicBytes \o buildHeader(features)
        \o Concat([i \in 1..Len(features) |-> buildFeature(features[i])])

featureBytes(features) ==
    magicbytes \o buildHeader(features)
        \o Concat([i \in 1..Len(features) |-> buildFeature(features[i])])

withGraphSection(prefix, graphSection) ==
    IF graphSection.err.kind # "none" THEN [err |-> graphSection.err, bytes |-> <<>>]
    ELSE [err |-> NoErr, bytes |-> prefix \o graphSection.bytes]

\* a variant that appends a graph section of no edges when no adjacency list
\* is given
serializeAlwaysGraph(features, adjacencyList) ==
    withGraphSection(featureBytes(features),
                     buildGraphSection(adjacencyList.edges, Len(features)))

\* [err, bytes]
serialize(features, adjacencyList) ==
    IF adjacencyList.present
    THEN withGraphSection(featureBytes(features),
                          buildGraphSection(adjacencyList.edges, Len(features)))
    ELSE [err |-> NoErr, bytes |-> featureBytes(features)]

\* ---------------------------------------------------------- offset locator
\* a variant whose step leaves the size prefix of a feature out
RECURSIVE walkFeaturesBare(_, _, _, _)
walkFeaturesBare(bytes, offset, featuresRead, featuresCount) ==
    IF featuresRead < featuresCount /\ offset < Length(bytes)
    THEN walkFeaturesBare(bytes, offset + Clip(readUint32(bytes, offset)),
                          featuresRead + 1, featuresCount)
    ELSE offset

\* the loop of calculateFeaturesEndOffset
RECURSIVE walkFeatures(_, _, _, _)
walkFeatures(bytes, offset, featuresRead, featuresCount) ==
    IF featuresRead < featuresCount /\ offset < Length(bytes)
    THEN walkFeatures(bytes, offset + SIZE_PREFIX_LEN + Clip(readUint32(bytes, offset)),
                      featuresRead + 1, featuresCount)
    ELSE offset

calculateFeaturesEndOffset(bytes, headerMeta) ==
    walkFeatures(bytes,
                 MagicLen + SIZE_PREFIX_LEN + Clip(readUint32(bytes, MagicLen))
                     + (IF headerMeta.indexNodeSize > 0
                        THEN calcTreeSize(headerMeta.featuresCount, headerMeta.indexNodeSize)
                        ELSE 0),
                 0, headerMeta.featuresCount)

\* --------------------------------------------------------- graph readers
\* one turn of the loop over the column descriptors: acc = [pos, cols, err]
columnStep(bytes, offset, acc, nameLen) ==
    IF nameLen < 0 THEN [acc EXCEPT !.err = RangeError]
    ELSE [pos |-> acc.pos + 2 + nameLen + 1,
          cols |-> Append(acc.cols,
                     [name |-> Utf8Decode(Slice(bytes, offset + acc.pos + 2,
                                                offset + acc.pos + 2 + nameLen)),
                      type |-> ByteAt(bytes, offset + acc.pos + 2 + nameLen)]),
          err |-> NoErr]

RECURSIVE parseColumns(_, _, _, _)
parseColumns(bytes, offset, n, acc) ==
    IF n = 0 \/ acc.err.kind # "none" THEN acc
    ELSE parseColumns(bytes, offset, n - 1,
                      columnStep(bytes, offset, acc, getUint16(bytes, offset + acc.pos)))

BadHeader(e) == [err |-> e, edgeCount |-> 0, isNull |-> TRUE, cols |-> <<>>]

\* a variant that returns the empty column list as it is
headerMetaOfEmptyList(edgeCount, r) ==
    IF r.err.kind # "none" THEN BadHeader(r.err)
    ELSE [err |-> NoErr, edgeCount |-> edgeCount, isNull |-> FALSE, cols |-> r.cols]

\* {edgeCount, edgeColumns: edgeColumns.length > 0 ? edgeColumns : null}
headerMetaOf(edgeCount, r) ==
    IF r.err.kind # "none" THEN BadHeader(r.err)
    ELSE [err |-> NoErr, edgeCount |-> edgeCount, isNull |-> Len(r.cols) = 0, cols |-> r.cols]

\* [err, edgeCount, isNull, cols]; the header size is not used
parseGraphHeader(bytes, offset, headerSize) ==
    IF offset > Len(bytes) \/ ~viewHas(bytes, offset, 4) \/ getUint16(bytes, offset + 4) < 0
    THEN BadHeader(RangeError)
    ELSE headerMetaOf(getUint32(bytes, offset),
                      parseColumns(bytes, offset, getUint16(bytes, offset + 4),
                                   [pos |-> 6, cols |-> <<>>, err |-> NoErr]))

parseGraphSectionHeader(bytes, offset) ==
    IF offset > Len(bytes) \/ sizeAt(bytes, offset) < 0 THEN BadHeader(RangeError)
    ELSE parseGraphHeader(bytes, offset + SIZE_PREFIX_LEN, sizeAt(bytes, offset))

\* the little-endian integer of the first n <= 3 bytes of raw
RECURSIVE LittleEndian(_, _)
LittleEndian(raw, n) ==
    IF n = 0 THEN 0 ELSE 256 * LittleEndian(Tail(raw), n - 1) + raw[1]

\* the number read by getInt8/16/32, getUint8/16/32 and getBigInt64/getBigUint64
\* from the bytes raw: exact below 2^20 in magnitude, else the raw bytes under
\* the tag of the read
IntegerOf(raw, n, lo, signed, tag) ==
    IF (~signed \/ raw[n] < 128) /\ (\A i \in 4..n : raw[i] = 0)
         /\ (n > 3 \/ ~signed \/ lo < Pow2(8 * n - 1)) /\ lo < Pow2(20)
    THEN VNum(2 * lo)
    ELSE IF signed /\ raw[n] >= 128 /\ n <= 3 THEN VNum(2 * (lo - Pow2(8 * n)))
    ELSE IF signed /\ raw[n] >= 128 /\ (\A i \in 4..n : raw[i] = 255)
              /\ Pow2(24) - lo <= Pow2(20)
    THEN VNum(2 * (lo - Pow2(24)))
    ELSE V(tag, raw)

IntegerValue(raw, signed, tag) ==
    IntegerOf(raw, Len(raw), LittleEndian(raw, Min(Len(raw), 3)), signed, tag)

\* the bytes a fixed-width case of the decoder's switch reads
FixedWidth(type) ==
    CASE type \in {ColBool, ColByte, ColUByte} -> 1
      [] type \in {ColShort, ColUShort} -> 2
      [] type \in {ColInt, ColUInt, ColFloat} -> 4
      [] OTHER -> 8

\* the value a fixed-width case makes of its bytes
FixedValue(type, raw) ==
    CASE type = ColBool -> IF raw[1] # 0 THEN VTrue ELSE VFalse
      [] type = ColByte -> IntegerValue(raw, TRUE, "i8")
      [] type = ColUByte -> IntegerValue(raw, FALSE, "u8")
      [] type = ColShort -> IntegerValue(raw, TRUE, "i16")
      [] type = ColUShort -> IntegerValue(raw, FALSE, "u16")
      [] type = ColInt -> IntegerValue(raw, TRUE, "i32")
      [] type = ColUInt -> IntegerValue(raw, FALSE, "u32")
      [] type = ColLong -> IntegerValue(raw, TRUE, "i64")
      [] type = ColULong -> IntegerValue(raw, FALSE, "u64")
      [] type = ColFloat -> IF raw = Zeros(4) THEN VNum(0) ELSE V("f32", raw)
      [] OTHER -> DecodeFloat64(raw)

\* [err, val, width, reach] of a case that throws
DecodeFail(e, abs) == [err |-> e, val |-> VNull, width |-> 0, reach |-> abs]

\* a fixed-width read at the absolute position abs: the view ends with the
\* ArrayBuffer, not with the property region nor with `bytes`
DecodeFixed(bytes, abs, n, type) ==
    IF abs + n > Len(bytes) THEN DecodeFail(RangeError, abs)
    ELSE [err |-> NoErr,
          val |-> FixedValue(type, [i \in 1..n |-> Octet(bytes, abs + i - 1)]),
          width |-> n, reach |-> abs + n]

jsonOf(width, reach, json) ==
    IF ~json.ok THEN DecodeFail(SyntaxError, reach)
    ELSE [err |-> NoErr, val |-> json.val, width |-> width, reach |-> reach]

variableOf(type, width, reach, payload) ==
    CASE type = ColBinary ->
            [err |-> NoErr, val |-> V("bin", payload), width |-> width, reach |-> reach]
      [] type = ColJson -> jsonOf(width, reach, JsonParse(Utf8Decode(payload)))
      [] OTHER ->
            [err |-> NoErr, val |-> VStr(Utf8Decode(payload)), width |-> width,
             reach |-> reach]

\* a length-prefixed read at region offset `at` of the region
\* [start, start + length): the length comes from the view, the payload from
\* subarray/slice, which clamp to the region
DecodeVariable(bytes, start, length, at, type, len) ==
    IF len < 0 THEN DecodeFail(RangeError, start + at)
    ELSE variableOf(type, 4 + len,
                    Max(start + at + 4, start + Min(at + 4 + len, length)),
                    Slice(bytes, start + Min(at + 4, length),
                          start + Min(at + 4 + len, length)))

\* one case of the decoder's switch: [err, val, width, reach]; reach is the
\* end (absolute, exclusive) of the bytes read
DecodeValue(bytes, start, length, at, type) ==
    IF type \in {ColBool, ColByte, ColUByte, ColShort, ColUShort, ColInt, ColUInt,
                 ColLong, ColULong, ColFloat, ColDouble}
    THEN DecodeFixed(bytes, start + at, FixedWidth(type), type)
    ELSE IF type \in {ColString, ColDateTime, ColJson, ColBinary}
    THEN DecodeVariable(bytes, start, length, at, type, sizeAt(bytes, start + at))
    ELSE DecodeFail(Err("Error", MsgUnknownColumn
                       \o (IF type < 0 THEN TxtUndefined ELSE IntToString(type))),
                    start + at)

\* properties[name] = val on an object: the key keeps its place when present
Assign(properties, name, val) ==
    IF \E i \in 1..Len(properties) : properties[i].k = name
    THEN [i \in 1..Len(properties) |->
            IF properties[i].k = name THEN [k |-> name, val |-> val] ELSE properties[i]]
    ELSE Append(properties, [k |-> name, val |-> val])

\* the end of one turn of the while loop: st = [offset, props, err, reach, stop]
propAssign(st, name, d) ==
    IF d.err.kind # "none"
    THEN [st EXCEPT !.err = d.err, !.reach = Max(st.reach, d.reach)]
    ELSE [offset |-> st.offset + 2 + d.width, props |-> Assign(st.props, name, d.val),
          err |-> NoErr, reach |-> Max(st.reach, d.reach), stop |-> FALSE]

\* a variant that throws at an ordinal the schema does not have
propStepStrict(bytes, start, length, cols, st, colIndex) ==
    IF colIndex < 0 \/ colIndex >= Len(cols) THEN [st EXCEPT !.err = RangeError]
    ELSE propAssign(st, cols[colIndex + 1].name,
                    DecodeValue(bytes, start, length, st.offset + 2,
                                cols[colIndex + 1].type))

\* a variant that also stops at an ordinal below the number of properties
\* read so far (it expects ascending ordinals)
propStepAscending(bytes, start, length, cols, st, colIndex) ==
    IF colIndex < 0 THEN [st EXCEPT !.err = RangeError]
    ELSE IF colIndex >= Len(cols) \/ colIndex < Len(st.props)
    THEN [st EXCEPT !.stop = TRUE, !.reach = Max(st.reach, start + st.offset + 2)]
    ELSE propAssign(st, cols[colIndex + 1].name,
                    DecodeValue(bytes, start, length, st.offset + 2,
                                cols[colIndex + 1].type))

\* one turn of the while loop; stop is the `break` at an ordinal the schema
\* does not have
propStep(bytes, start, length, cols, st, colIndex) ==
    IF colIndex < 0 THEN [st EXCEPT !.err = RangeError]
    ELSE IF colIndex >= Len(cols)
    THEN [st EXCEPT !.stop = TRUE, !.reach = Max(st.reach, start + st.offset + 2)]
    ELSE propAssign(st, cols[colIndex + 1].name,
                    DecodeValue(bytes, start, length, st.offset + 2,
                                cols[colIndex + 1].type))

\* the while loop of parseEdgeProperties
RECURSIVE parseProps(_, _, _, _, _)
parseProps(bytes, start, length, cols, st) ==
    IF st.err.kind # "none" \/ st.stop \/ st.offset >= length THEN st
    ELSE parseProps(bytes, start, length, cols,
                    propStep(bytes, start, length, cols, st,
                             getUint16(bytes, start + st.offset)))

propsResult(r) == [err |-> r.err, props |-> r.props, reach |-> r.reach]

\* [err, props, reach] for the property region [start, start + length)
parseEdgeProperties(bytes, start, length, columns) ==
    IF columns.isNull \/ Len(columns.cols) = 0 \/ length = 0
    THEN [err |-> NoErr, props |-> <<>>, reach |-> start]
    ELSE propsResult(parseProps(bytes, start, length, columns.cols,
                        [offset |-> 0, props |-> <<>>, err |-> NoErr, reach |-> start,
                         stop |-> FALSE]))

NoEdge == [from |-> 0, to |-> 0, hasProps |-> FALSE, properties |-> <<>>]

\* return {from, to, properties}
edgeOf(from, to, offset, p) ==
    IF p.err.kind # "none" THEN [err |-> p.err, edge |-> NoEdge, reach |-> p.reach]
    ELSE [err |-> NoErr,
          edge |-> [from |-> from, to |-> to, hasProps |-> TRUE, properties |-> p.props],
          reach |-> Max(offset + 8, p.reach)]

\* a variant that leaves properties undefined when the record has none
parseEdgeBare(bytes, offset, size, columns) ==
    IF offset > Len(bytes) \/ ~viewHas(bytes, offset, 4)
          \/ ~viewHas(bytes, offset + 4, 4)
    THEN [err |-> RangeError, edge |-> NoEdge, reach |-> offset]
    ELSE IF ~columns.isNull /\ Len(columns.cols) > 0 /\ size > 8
    THEN edgeOf(getUint32(bytes, offset), getUint32(bytes, offset + 4), offset,
                parseEdgeProperties(bytes, Min(offset + 8, Length(bytes)),
                    Max(Min(offset + size, Length(bytes)) - Min(offset + 8, Length(bytes)), 0),
                    columns))
    ELSE [err |-> NoErr,
          edge |-> [from |-> getUint32(bytes, offset), to |-> getUint32(bytes, offset + 4),
                    hasProps |-> FALSE, properties |-> <<>>],
          reach |-> offset + 8]

\* [err, edge, reach]: the edge whose from field is at offset
parseEdge(bytes, offset, size, columns) ==
    IF offset > Len(bytes) \/ ~viewHas(bytes, offset, 4)
          \/ ~viewHas(bytes, offset + 4, 4)
    THEN [err |-> RangeError, edge |-> NoEdge, reach |-> offset]
    ELSE IF ~columns.isNull /\ Len(columns.cols) > 0 /\ size > 8
    THEN edgeOf(getUint32(bytes, offset), getUint32(bytes, offset + 4), offset,
                parseEdgeProperties(bytes, Min(offset + 8, Length(bytes)),
                    Max(Min(offset + size, Length(bytes)) - Min(offset + 8, Length(bytes)), 0),
                    columns))
    ELSE [err |-> NoErr,
          edge |-> [from |-> getUint32(bytes, offset), to |-> getUint32(bytes, offset + 4),
                    hasProps |-> TRUE, properties |-> <<>>],
          reach |-> offset + 8]

\* a variant that puts each edge in front of those read before it
edgePushFront(st, edgeSize, e) ==
    IF e.err.kind # "none" THEN [err |-> e.err, edges |-> <<>>, offset |-> st.offset]
    ELSE [err |-> NoErr, edges |-> <<e.edge>> \o st.edges,
          offset |-> st.offset + SIZE_PREFIX_LEN + edgeSize]

\* a variant that keeps the edges read before the record that throws
edgePushKeep(st, edgeSize, e) ==
    IF e.err.kind # "none" THEN [err |-> e.err, edges |-> st.edges, offset |-> st.offset]
    ELSE [err |-> NoErr, edges |-> Append(st.edges, e.edge),
          offset |-> st.offset + SIZE_PREFIX_LEN + edgeSize]

\* edges[i] = parseEdge(...); offset += SIZE_PREFIX_LEN + edgeSize
edgePush(st, edgeSize, e) ==
    IF e.err.kind # "none" THEN [err |-> e.err, edges |-> <<>>, offset |-> st.offset]
    ELSE [err |-> NoErr, edges |-> Append(st.edges, e.edge),
          offset |-> st.offset + SIZE_PREFIX_LEN + edgeSize]

edgeStep(bytes, columns, st, edgeSize) ==
    IF st.offset > Len(bytes) \/ edgeSize < 0
    THEN [err |-> RangeError, edges |-> <<>>, offset |-> st.offset]
    ELSE edgePush(st, edgeSize,
                  parseEdge(bytes, st.offset + SIZE_PREFIX_LEN, edgeSize, columns))

\* the for loop of parseGraphSection: st = [err, edges, offset]
RECURSIVE parseEdges(_, _, _, _)
parseEdges(bytes, remaining, columns, st) ==
    IF remaining = 0 \/ st.err.kind # "none" THEN st
    ELSE parseEdges(bytes, remaining - 1, columns,
                    edgeStep(bytes, columns, st, sizeAt(bytes, st.offset)))

edgesResult(r) == [err |-> r.err, edges |-> r.edges]

sectionEdges(bytes, offset, h) ==
    IF h.err.kind # "none" THEN [err |-> h.err, edges |-> <<>>]
    ELSE edgesResult(parseEdges(bytes, Clip(h.edgeCount), [isNull |-> h.isNull, cols |-> h.cols],
                                [err |-> NoErr, edges |-> <<>>, offset |-> offset]))

\* [err, edges]
parseGraphSection(bytes, offset) ==
    IF offset > Len(bytes) \/ sizeAt(bytes, offset) < 0
    THEN [err |-> RangeError, edges |-> <<>>]
    ELSE sectionEdges(bytes, offset + SIZE_PREFIX_LEN + sizeAt(bytes, offset),
                      parseGraphHeader(bytes, offset + SIZE_PREFIX_LEN,
                                       sizeAt(bytes, offset)))

\* genericDeserialize(bytes, fromFeature): the bodies of the featuresCount
\* size-prefixed features that follow the feature header
RECURSIVE readFeatures(_, _, _)
readFeatures(bytes, offset, remaining) ==
    IF remaining = 0 \/ offset >= Length(bytes) THEN <<>>
    ELSE <<Slice(bytes, offset + SIZE_PREFIX_LEN,
                 offset + SIZE_PREFIX_LEN + Clip(readUint32(bytes, offset)))>>
            \o readFeatures(bytes, offset + SIZE_PREFIX_LEN + Clip(readUint32(bytes, offset)),
                            remaining - 1)

\* the feature reader refuses a buffer whose magic isValidMagicBytes rejects
BadMagic == Err("BadMagic", <<>>)

\* [err, features]
genericDeserialize(bytes) ==
    IF ~isValidMagicBytes(bytes) THEN [err |-> BadMagic, features |-> <<>>]
    ELSE [err |-> NoErr,
          features |-> readFeatures(bytes,
                                    MagicLen + SIZE_PREFIX_LEN + Clip(readUint32(bytes, MagicLen)),
                                    fromByteBuffer(bytes).featuresCount)]

\* ------------------------------------------------------------ input domain
KeyW == <<119>>
KeyE == <<233>>
\* "weight"
KeyWeight == <<119, 101, 105, 103, 104, 116>>

Prop(k, val) == [k |-> k, val |-> val]

EdgeIn(from, to, hasProps, properties) ==
    [from |-> from, to |-> to, hasProps |-> hasProps, properties |-> properties]

\* property values of every kind the writer distinguishes
AllValues ==
    {VTrue, VFalse, VNum(3), VNum(0), VStr(<<233>>), VStr(<<49>>), VNull, VUndef,
     V("bin", <<1, 2>>), V("arr", <<1, 2>>), VFn}

FewValues == {VNum(3), VStr(<<233>>), VNull}

\* an absent property map, the empty map and every map of one key
OneKeyProps ==
    {[hasProps |-> FALSE, properties |-> <<>>], [hasProps |-> TRUE, properties |-> <<>>]}
        \cup {[hasProps |-> TRUE, properties |-> <<Prop(KeyW, v)>>] : v \in AllValues}

\* an absent property map and every ordered map over the two keys
TwoKeyProps ==
    {[hasProps |-> FALSE, properties |-> <<>>], [hasProps |-> TRUE, properties |-> <<>>]}
        \cup {[hasProps |-> TRUE, properties |-> <<Prop(k, v)>>] :
                 k \in {KeyW, KeyE}, v \in FewValues}
        \cup {[hasProps |-> TRUE, properties |-> <<Prop(KeyW, v), Prop(KeyE, u)>>] :
                 v \in FewValues, u \in FewValues}
        \cup {[hasProps |-> TRUE, properties |-> <<Prop(KeyE, v), Prop(KeyW, u)>>] :
                 v \in FewValues, u \in FewValues}

\* edge lists 0 -> 1, 1 -> 0, 0 -> 1, ... carrying property maps drawn from P
ChainEdges(P) ==
    UNION {{[i \in 1..n |-> EdgeIn((i - 1) % 2, i % 2, ps[i].hasProps, ps[i].properties)] :
               ps \in [1..n -> P]} : n \in 1..MaxEdges}

\* the edge lists 0 -> 1, 1 -> 0, ... whose first and last edge carry property
\* maps drawn from P and whose other edges carry none
EndsEdges(P) ==
    UNION {{[i \in 1..n |->
                IF i = 1 THEN EdgeIn(0, 1, a.hasProps, a.properties)
                ELSE IF i = n THEN EdgeIn((i - 1) % 2, i % 2, b.hasProps, b.properties)
                ELSE EdgeIn((i - 1) % 2, i % 2, FALSE, <<>>)] :
               a \in P, b \in P} : n \in 1..MaxEdges}

\* whether only the first and the last edge of a list carry a property map
InnerPlain(edges) == \A i \in 2..(Len(edges) - 1) : ~edges[i].hasProps

\* an edge without properties between any two indices from -1 to MaxFeatures
IndexPairs == {EdgeIn(f, t, FALSE, <<>>) : f \in -1..MaxFeatures, t \in -1..MaxFeatures}

\* edge lists without properties whose first and last edge are index pairs and
\* whose other edges go 1 -> 0, 0 -> 1, ...
IndexEdges ==
    UNION {{[i \in 1..n |-> IF i = 1 THEN a
                            ELSE IF i = n THEN b
                            ELSE EdgeIn((i - 1) % 2, i % 2, FALSE, <<>>)] :
               a \in IndexPairs, b \in IndexPairs} : n \in 1..MaxEdges}

\* lists of one or two edges whose last edge carries a string or a function
\* under the key w between any two indices, after an edge without properties
\* between any two indices
MixedEdges ==
    {<<EdgeIn(a.from, a.to, TRUE, <<Prop(KeyW, v)>>)>> :
        a \in IndexPairs, v \in {VStr(<<49>>), VFn}}
        \cup {<<b, EdgeIn(a.from, a.to, TRUE, <<Prop(KeyW, v)>>)>> :
                 a \in IndexPairs, b \in IndexPairs, v \in {VStr(<<49>>), VFn}}

\* n features with one-byte bodies
PlainFeatures(n) == [i \in 1..n |-> <<i>>]

\* feature lists of up to MaxFeatures features with bodies of 1..MaxFeatureLen bytes
SizedFeatures ==
    UNION {{[i \in 1..n |-> [j \in 1..ls[i] |-> i]] : ls \in [1..n -> 1..MaxFeatureLen]} :
               n \in 0..MaxFeatures}

\* the property maps of the graphs whose buffers are altered
TamperProps ==
    {[hasProps |-> FALSE, properties |-> <<>>],
     [hasProps |-> TRUE, properties |-> <<Prop(KeyW, VNum(3))>>],
     [hasProps |-> TRUE, properties |-> <<Prop(KeyW, VStr(<<233>>))>>],
     [hasProps |-> TRUE, properties |-> <<Prop(KeyW, VNum(3)), Prop(KeyE, VStr(<<233>>))>>]}

\* the features of the graphs whose buffers are altered
TamperFeatures == PlainFeatures(2)

\* the values an altered byte takes
TamperBytes == {0, 255}

Adj(edges) == [present |-> TRUE, edges |-> edges]

\* the graph of the format document's example: [{from: 0, to: 1, weight: 1.5}]
ExampleEdges == <<EdgeIn(0, 1, TRUE, <<Prop(KeyWeight, VNum(3))>>)>>

\* a graph whose only property key is the empty string: [{from: 0, to: 1,
\* properties: {"": 1.5}}]
EmptyKeyEdges == <<EdgeIn(0, 1, TRUE, <<Prop(<<>>, VNum(3))>>)>>

NoAdj == [present |-> FALSE, edges |-> <<>>]

\* ------------------------------------------------------------------ state
VARIABLES
    features,       \* serialize's feature collection: the encoded feature bodies
    adjacencyList,  \* serialize's adjacency list: [present, edges]
    wState,         \* "ready", "written" or "failed"
    bytes,          \* the buffer serialize returned
    wErr,           \* the error serialize threw
    tampered,       \* whether the buffer was altered after serialize returned it
    bState,         \* deserialize: "idle", "parsed", "notified", "features", "done", "error"
    bObserver,      \* whether deserialize was given metaFn
    bMeta,          \* deserialize's headerMeta, featuresEndOffset, graphMeta
    obsLog,         \* the calls of metaFn: what was materialized at the time
    bFeatures,      \* deserialize's features
    bEdges,         \* deserialize's adjacencyList.edges
    bErr,           \* the error deserialize threw
    sState,         \* deserializeGraphEdges: "fresh", "suspended", "done", "error"
    sOffset,        \* the generator's offset (of the next edge record)
    sRemaining,     \* edgeCount - i, edgeCount as Clip holds it
    sColumns,       \* the generator's edgeColumns
    sYielded,       \* the edges yielded so far
    sErr,           \* the error the generator threw
    others          \* the further generators of deserializeGraphEdges over the buffer:
                    \* for each, [state, offset, remaining, columns, yielded, err]

vars == <<features, adjacencyList, wState, bytes, wErr, tampered, bState, bObserver, bMeta, obsLog,
          bFeatures, bEdges, bErr, sState, sOffset, sRemaining, sColumns, sYielded, sErr,
          others>>

writerVars == <<features, adjacencyList, wState, bytes, wErr, tampered>>
batchVars == <<bState, bObserver, bMeta, obsLog, bFeatures, bEdges, bErr>>
streamVars == <<sState, sOffset, sRemaining, sColumns, sYielded, sErr>>

NoColumns == [isNull |-> TRUE, cols |-> <<>>]

\* the generators of deserializeGraphEdges over one buffer: the one of the
\* s-variables and the further ones, 2..MaxReaders
MaxReaders == 2

OtherReaders == 2..MaxReaders

\* a generator that has not been stepped
NoGenerator ==
    [state |-> "fresh", offset |-> 0, remaining |-> 0, columns |-> NoColumns,
     yielded |-> <<>>, err |-> NoErr]

NoMeta ==
    [err |-> NoErr, featuresCount |-> 0, offset |-> 0, hasGraph |-> FALSE, edgeCount |-> 0,
     edgeColumns |-> NoColumns]

Inputs ==
    {[f |-> PlainFeatures(2), a |-> Adj(es)] : es \in ChainEdges(OneKeyProps)}
        \cup {[f |-> PlainFeatures(2), a |-> Adj(es)] : es \in EndsEdges(TwoKeyProps)}
        \cup {[f |-> PlainFeatures(n), a |-> Adj(es)] : n \in 0..MaxFeatures, es \in IndexEdges}
        \cup {[f |-> fs, a |-> a] : fs \in SizedFeatures, a \in {NoAdj, Adj(<<>>)}}
        \cup {[f |-> PlainFeatures(2), a |-> Adj(ExampleEdges)]}
        \cup {[f |-> PlainFeatures(2), a |-> Adj(EmptyKeyEdges)]}
        \cup {[f |-> PlainFeatures(2), a |-> Adj(es)] : es \in MixedEdges}

Init ==
    /\ \E in \in Inputs : features = in.f /\ adjacencyList = in.a
    /\ wState = "ready"
    /\ bytes = <<>>
    /\ wErr = NoErr
    /\ tampered = FALSE
    /\ bState = "idle"
    /\ bObserver = FALSE
    /\ bMeta = NoMeta
    /\ obsLog = <<>>
    /\ bFeatures = <<>>
    /\ bEdges = <<>>
    /\ bErr = NoErr
    /\ sState = "fresh"
    /\ sOffset = 0
    /\ sRemaining = 0
    /\ sColumns = NoColumns
    /\ sYielded = <<>>
    /\ sErr = NoErr
    /\ others = [r \in OtherReaders |-> NoGenerator]

\* ---------------------------------------------------------------- actions
SerializeResult(r) ==
    /\ wState' = IF r.err.kind = "none" THEN "written" ELSE "failed"
    /\ bytes' = r.bytes
    /\ wErr' = r.err

\* serialize(featurecollection, adjacencyList)
Serialize ==
    /\ wState = "ready"
    /\ SerializeResult(serialize(features, adjacencyList))
    /\ UNCHANGED <<features, adjacencyList, tampered, batchVars, streamVars, others>>

\* the offset of the i-th edge record, the first being at off
RECURSIVE RecordStart(_, _, _)
RecordStart(b, off, i) ==
    IF i = 1 THEN off ELSE RecordStart(b, off + 4 + sizeAt(b, off), i - 1)

\* the bytes a property entry of the type has after its ordinal
EntryWidth(region, at, type) ==
    IF type \in {ColString, ColDateTime, ColJson, ColBinary}
    THEN 4 + sizeAt(region, at)
    ELSE FixedWidth(type)

\* the buffer with the bytes [at, mid) and [mid, end) exchanged
ExchangeEntries(b, at, mid, end) ==
    Slice(b, 0, at) \o Slice(b, mid, end) \o Slice(b, at, mid) \o Slice(b, end, Len(b))

\* whether the property region [at, end) of the buffer holds exactly two
\* entries of the columns, the second starting at mid
TwoEntries(b, at, mid, end, cols) ==
    /\ mid + 2 < end
    /\ getUint16(b, mid) < Len(cols)
    /\ mid + 2 + EntryWidth(b, mid + 2, cols[getUint16(b, mid) + 1].type) = end

\* the buffer with the two property entries of the record at rec exchanged,
\* the buffer itself when the record does not hold exactly two entries
Reorder(b, rec, cols) ==
    IF sizeAt(b, rec) > 8 /\ getUint16(b, rec + 12) < Len(cols)
          /\ TwoEntries(b, rec + 12,
                        rec + 14 + EntryWidth(b, rec + 14, cols[getUint16(b, rec + 12) + 1].type),
                        rec + 4 + sizeAt(b, rec), cols)
    THEN ExchangeEntries(b, rec + 12,
             rec + 14 + EntryWidth(b, rec + 14, cols[getUint16(b, rec + 12) + 1].type),
             rec + 4 + sizeAt(b, rec))
    ELSE b

\* the buffer written (b) for the edges with the two property entries of the
\* i-th record exchanged; off is the offset of the graph section
ReorderRecord(b, off, edges, i) ==
    Reorder(b, RecordStart(b, off + 4 + sizeAt(b, off), i), introspectEdgeColumns(edges).cols)

\* The readers take any buffer.  Before the first read, a buffer written for a
\* small graph may lose its tail from some byte after the feature header on
\* (as a copy, bytes.slice(0, n), or as a view on the same ArrayBuffer,
\* bytes.subarray(0, n), which keeps the tail behind the view),
\* have one byte of the magic or of the graph section overwritten, or have the
\* two property entries of one edge record in the other order (the format
\* does not fix the order of the entries).
Corrupt ==
    /\ wState = "written" /\ ~tampered /\ bState = "idle" /\ sState = "fresh"
    /\ features = TamperFeatures
    /\ adjacencyList.present /\ InnerPlain(adjacencyList.edges)
    /\ \A i \in 1..Len(adjacencyList.edges) :
          [hasProps |-> adjacencyList.edges[i].hasProps,
           properties |-> adjacencyList.edges[i].properties] \in TamperProps
    /\ \/ \E p \in (MagicLen + Len(buildHeader(features)) + 1)..Len(bytes) :
             \/ bytes' = SubSeq(bytes, 1, p - 1)
             \/ bytes' = subarrayTo(bytes, p - 1)
       \/ \E p \in (1..MagicLen) \cup ((Len(featureBytes(features)) + 1)..Len(bytes)) :
             \E v \in TamperBytes \ {bytes[p]} : bytes' = [bytes EXCEPT ![p] = v]
       \/ \E i \in 1..Len(adjacencyList.edges) :
             /\ bytes' = ReorderRecord(bytes, Len(featureBytes(features)),
                                       adjacencyList.edges, i)
             /\ bytes' # bytes
    /\ tampered' = TRUE
    /\ UNCHANGED <<features, adjacencyList, wState, wErr, batchVars, streamVars, others>>

\* what deserialize knows when it reaches `if (metaFn)`: [err, featuresCount,
\* offset, hasGraph, edgeCount, edgeColumns]
metaWithGraph(headerMeta, featuresEndOffset, graphMeta) ==
    [err |-> graphMeta.err, featuresCount |-> headerMeta.featuresCount,
     offset |-> featuresEndOffset, hasGraph |-> TRUE, edgeCount |-> graphMeta.edgeCount,
     edgeColumns |-> [isNull |-> graphMeta.isNull, cols |-> graphMeta.cols]]

metaAt(buf, headerMeta, featuresEndOffset) ==
    IF featuresEndOffset < Length(buf)
    THEN metaWithGraph(headerMeta, featuresEndOffset,
                       parseGraphSectionHeader(buf, featuresEndOffset))
    ELSE [err |-> NoErr, featuresCount |-> headerMeta.featuresCount,
          offset |-> featuresEndOffset, hasGraph |-> FALSE, edgeCount |-> 0,
          edgeColumns |-> NoColumns]

metaOf(buf, headerMeta) ==
    metaAt(buf, headerMeta, calculateFeaturesEndOffset(buf, headerMeta))

deserializeMeta(buf) == metaOf(buf, fromByteBuffer(buf))

ParseResult(m) ==
    /\ bState' = IF m.err.kind = "none" THEN "parsed" ELSE "error"
    /\ bErr' = m.err
    /\ bMeta' = IF m.err.kind = "none" THEN m ELSE bMeta

\* deserialize(bytes, metaFn), up to the graph header
DeserializeParse ==
    /\ wState = "written" /\ bState = "idle"
    /\ \E metaFn \in BOOLEAN : bObserver' = metaFn
    /\ ParseResult(deserializeMeta(bytes))
    /\ UNCHANGED <<writerVars, obsLog, bFeatures, bEdges, streamVars, others>>

\* a variant that calls metaFn after the features were read
DeserializeNotifyLate ==
    /\ bState = "parsed"
    /\ bState' = "notified"
    /\ bFeatures' = genericDeserialize(bytes).features
    /\ obsLog' = IF bObserver
                 THEN Append(obsLog, [meta |-> bMeta, features |-> Len(bFeatures'),
                                      edges |-> Len(bEdges)])
                 ELSE obsLog
    /\ UNCHANGED <<writerVars, bObserver, bMeta, bEdges, bErr, streamVars, others>>

\* if (metaFn) metaFn({features: headerMeta, graph: graphMeta})
DeserializeNotify ==
    /\ bState = "parsed"
    /\ bState' = "notified"
    /\ obsLog' = IF bObserver
                 THEN Append(obsLog, [meta |-> bMeta, features |-> Len(bFeatures),
                                      edges |-> Len(bEdges)])
                 ELSE obsLog
    /\ UNCHANGED <<writerVars, bObserver, bMeta, bFeatures, bEdges, bErr, streamVars, others>>

\* one turn of
\*   for await (const feature of genericDeserialize(...)) features.push(feature)
\* the loop awaits the generator once for each feature, so that other
\* callbacks run between two features; r is what the generator yields in
\* all, of which the turn pushes the next.  bState stays "notified" while
\* features are left and is "features" when the last one was pushed.
FeaturesResult(r) ==
    /\ bState' = IF r.err.kind # "none" THEN "error"
                 ELSE IF Len(bFeatures) + 1 < Len(r.features) THEN "notified"
                 ELSE "features"
    /\ bErr' = r.err
    /\ bFeatures' = IF r.err.kind = "none" /\ Len(bFeatures) < Len(r.features)
                    THEN Append(bFeatures, r.features[Len(bFeatures) + 1])
                    ELSE bFeatures

DeserializeFeatures ==
    /\ bState = "notified"
    /\ FeaturesResult(genericDeserialize(bytes))
    /\ UNCHANGED <<writerVars, bObserver, bMeta, obsLog, bEdges, streamVars, others>>

GraphResult(r) ==
    /\ bState' = IF r.err.kind = "none" THEN "done" ELSE "error"
    /\ bErr' = r.err
    /\ bFeatures' = IF r.err.kind = "none" THEN bFeatures ELSE <<>>
    /\ bEdges' = r.edges

\* adjacencyList = hasGraphSection ? parseGraphSection(...) : {edges: []}
DeserializeGraph ==
    /\ bState = "features"
    /\ IF bMeta.hasGraph
       THEN GraphResult(parseGraphSection(bytes, bMeta.offset))
       ELSE GraphResult([err |-> NoErr, edges |-> <<>>])
    /\ UNCHANGED <<writerVars, bObserver, bMeta, obsLog, streamVars, others>>

StreamStop(done, e) ==
    [done |-> done, err |-> e, offset |-> 0, edgeCount |-> 0, columns |-> NoColumns]

streamHeader(offset, h) ==
    IF h.err.kind # "none" THEN StreamStop(FALSE, h.err)
    ELSE [done |-> FALSE, err |-> NoErr, offset |-> offset, edgeCount |-> h.edgeCount,
          columns |-> [isNull |-> h.isNull, cols |-> h.cols]]

\* deserializeGraphStream up to its loop
deserializeGraphStream(buf, graphOffset) ==
    IF sizeAt(buf, graphOffset) < 0 THEN StreamStop(FALSE, RangeError)
    ELSE streamHeader(graphOffset + SIZE_PREFIX_LEN + sizeAt(buf, graphOffset),
                      parseGraphHeader(buf, graphOffset + SIZE_PREFIX_LEN,
                                       sizeAt(buf, graphOffset)))

streamAt(buf, featuresEndOffset) ==
    IF featuresEndOffset >= Length(buf) THEN StreamStop(TRUE, NoErr)
    ELSE deserializeGraphStream(buf, featuresEndOffset)

\* the generator of deserializeGraphEdges up to the loop it delegates to:
\* [done, err, offset, edgeCount, columns]
deserializeGraphEdges(buf) ==
    streamAt(buf, calculateFeaturesEndOffset(buf, fromByteBuffer(buf)))

StreamFinish(state, e) ==
    /\ sState' = state
    /\ sErr' = e
    /\ UNCHANGED <<sOffset, sRemaining, sColumns, sYielded>>

\* yield parseEdge(...); offset += SIZE_PREFIX_LEN + edgeSize
StreamYield(offset, remaining, columns, edgeSize, e) ==
    IF e.err.kind # "none" THEN StreamFinish("error", e.err)
    ELSE /\ sState' = "suspended"
         /\ sYielded' = Append(sYielded, e.edge)
         /\ sOffset' = offset + SIZE_PREFIX_LEN + edgeSize
         /\ sRemaining' = remaining - 1
         /\ sColumns' = columns
         /\ sErr' = sErr

\* a variant that returns before the last edge
StreamLoopShort(offset, remaining, columns) ==
    IF remaining <= 1 THEN StreamFinish("done", NoErr)
    ELSE IF offset > Len(bytes) \/ sizeAt(bytes, offset) < 0
    THEN StreamFinish("error", RangeError)
    ELSE StreamYield(offset, remaining, columns, sizeAt(bytes, offset),
                     parseEdge(bytes, offset + SIZE_PREFIX_LEN, sizeAt(bytes, offset),
                               columns))

\* the loop of deserializeGraphStream from its test to the next yield
StreamLoop(offset, remaining, columns) ==
    IF remaining = 0 THEN StreamFinish("done", NoErr)
    ELSE IF offset > Len(bytes) \/ sizeAt(bytes, offset) < 0
    THEN StreamFinish("error", RangeError)
    ELSE StreamYield(offset, remaining, columns, sizeAt(bytes, offset),
                     parseEdge(bytes, offset + SIZE_PREFIX_LEN, sizeAt(bytes, offset),
                               columns))

StreamStart(p) ==
    IF p.done THEN StreamFinish("done", NoErr)
    ELSE IF p.err.kind # "none" THEN StreamFinish("error", p.err)
    ELSE StreamLoop(p.offset, Clip(p.edgeCount), p.columns)

\* one next() of the generator: it runs to the next yield, to its end or to
\* the error it throws; a generator that has returned or thrown stays completed
StreamNext ==
    /\ wState = "written"
    /\ IF sState = "fresh"
       THEN StreamStart(deserializeGraphEdges(bytes))
       ELSE IF sState = "suspended"
       THEN StreamLoop(sOffset, sRemaining, sColumns)
       ELSE UNCHANGED streamVars
    /\ UNCHANGED <<writerVars, batchVars, others>>

Next ==
    \/ Serialize
    \/ Corrupt
    \/ DeserializeParse
    \/ DeserializeNotify
    \/ DeserializeFeatures
    \/ DeserializeGraph
    \/ StreamNext

Spec == Init /\ [][Next]_vars

\* --------------------------------------------------- concurrent generators
\* A generator of deserializeGraphEdges keeps its offset, its loop counter and
\* its columns in its own frame; g is that frame and what it has yielded.
generatorFinish(g, state, e) == [g EXCEPT !.state = state, !.err = e]

\* yield parseEdge(...); offset += SIZE_PREFIX_LEN + edgeSize
generatorYield(g, offset, remaining, columns, edgeSize, e) ==
    IF e.err.kind # "none" THEN generatorFinish(g, "error", e.err)
    ELSE [state |-> "suspended", offset |-> offset + SIZE_PREFIX_LEN + edgeSize,
          remaining |-> remaining - 1, columns |-> columns,
          yielded |-> Append(g.yielded, e.edge), err |-> g.err]

\* a variant whose offset is one cursor shared with the generator of the
\* s-variables
generatorLoopShared(buf, g, offset, remaining, columns) ==
    IF remaining = 0 THEN generatorFinish(g, "done", NoErr)
    ELSE IF sState = "suspended" /\ sizeAt(buf, sOffset) >= 0
    THEN generatorYield(g, sOffset, remaining, columns, sizeAt(buf, sOffset),
                        parseEdge(buf, sOffset + SIZE_PREFIX_LEN, sizeAt(buf, sOffset),
                                  columns))
    ELSE IF offset > Len(buf) \/ sizeAt(buf, offset) < 0
    THEN generatorFinish(g, "error", RangeError)
    ELSE generatorYield(g, offset, remaining, columns, sizeAt(buf, offset),
                        parseEdge(buf, offset + SIZE_PREFIX_LEN, sizeAt(buf, offset),
                                  columns))

\* the loop of deserializeGraphStream from its test to the next yield
generatorLoop(buf, g, offset, remaining, columns) ==
    IF remaining = 0 THEN generatorFinish(g, "done", NoErr)
    ELSE IF offset > Len(buf) \/ sizeAt(buf, offset) < 0
    THEN generatorFinish(g, "error", RangeError)
    ELSE generatorYield(g, offset, remaining, columns, sizeAt(buf, offset),
                        parseEdge(buf, offset + SIZE_PREFIX_LEN, sizeAt(buf, offset),
                                  columns))

generatorStart(buf, g, p) ==
    IF p.done THEN generatorFinish(g, "done", NoErr)
    ELSE IF p.err.kind # "none" THEN generatorFinish(g, "error", p.err)
    ELSE generatorLoop(buf, g, p.offset, Clip(p.edgeCount), p.columns)

\* one next() of a generator: the frame after it
generatorNext(buf, g) ==
    IF g.state = "fresh" THEN generatorStart(buf, g, deserializeGraphEdges(buf))
    ELSE IF g.state = "suspended"
    THEN generatorLoop(buf, g, g.offset, g.remaining, g.columns)
    ELSE g

\* one next() of one of the further generators
StreamNextOther ==
    /\ wState = "written"
    /\ \E r \in OtherReaders : others' = [others EXCEPT ![r] = generatorNext(bytes, others[r])]
    /\ UNCHANGED <<writerVars, batchVars, streamVars>>

\* the graphs the concurrent readers are run on: two features, edges whose
\* property maps are among TamperProps
ReaderInputs ==
    /\ features = TamperFeatures
    /\ \A i \in 1..Len(adjacencyList.edges) :
          [hasProps |-> adjacencyList.edges[i].hasProps,
           properties |-> adjacencyList.edges[i].properties] \in TamperProps

InitReaders == Init /\ ReaderInputs

\* deserialize and any number of generators over the buffer serialize
\* returned, their steps interleaved in any order
NextReaders ==
    \/ Serialize
    \/ DeserializeParse
    \/ DeserializeNotify
    \/ DeserializeFeatures
    \/ DeserializeGraph
    \/ StreamNext
    \/ StreamNextOther

SpecReaders == InitReaders /\ [][NextReaders]_vars

\* ------------------------------------------------------------- properties
\* the bytes of magic, feature header and size-prefixed features
PlainFlatGeobuf(fs) ==
    magicbytes \o setUint32(2) \o <<Len(fs), 0>>
        \o Concat([i \in 1..Len(fs) |-> setUint32(Len(fs[i])) \o fs[i]])

\* the length of the size-prefixed features from the i-th on
RECURSIVE FeaturesLength(_, _)
FeaturesLength(fs, i) ==
    IF i > Len(fs) THEN 0 ELSE SIZE_PREFIX_LEN + Len(fs[i]) + FeaturesLength(fs, i + 1)

\* where the graph section of a written buffer starts: Len(PlainFlatGeobuf(features))
GraphOffset == MagicLen + SIZE_PREFIX_LEN + 2 + FeaturesLength(features, 1)

ValidEdge(e, featureCount) ==
    /\ e.from >= 0 /\ e.from < featureCount
    /\ e.to >= 0 /\ e.to < featureCount
    /\ e.from # e.to

AllValid ==
    \A i \in 1..Len(adjacencyList.edges) :
        ValidEdge(adjacencyList.edges[i], Len(features))

\* the positions (none or one) of the first edge whose property map is non-empty
FirstPropertied(edges) ==
    {i \in 1..Len(edges) :
        /\ edges[i].hasProps /\ edges[i].properties # <<>>
        /\ \A j \in 1..(i - 1) : ~edges[j].hasProps \/ edges[j].properties = <<>>}

\* the column type the specification gives a value, -1 where it gives none
SpecType(val) ==
    CASE val.t = "bool" -> ColBool
      [] val.t = "num" -> ColDouble
      [] val.t = "str" -> ColString
      [] val.t = "bin" -> ColBinary
      [] val.t \in {"arr", "obj"} -> ColJson
      [] val.t = "null" -> ColString
      [] OTHER -> -1

SpecColumns(p) == [j \in 1..Len(p) |-> [name |-> p[j].k, type |-> SpecType(p[j].val)]]

\* the schema the specification infers for an edge list
ExpectedColumns(edges) ==
    IF FirstPropertied(edges) = {} THEN <<>>
    ELSE SpecColumns(edges[CHOOSE i \in FirstPropertied(edges) : TRUE].properties)

PairsOf(props) == {props[j] : j \in 1..Len(props)}

\* the properties the round trip keeps of an input edge
ExpectedPairs(e, cols) ==
    IF ~e.hasProps THEN {}
    ELSE {pr \in PairsOf(e.properties) :
            /\ \E j \in 1..Len(cols) : cols[j].name = pr.k
            /\ pr.val.t \notin {"null", "undef"}}

RoundTrips(in, out) ==
    /\ Len(out) = Len(in)
    /\ \A i \in 1..Len(in) :
          /\ out[i].from = in[i].from
          /\ out[i].to = in[i].to
          /\ PairsOf(out[i].properties) = ExpectedPairs(in[i], ExpectedColumns(in))
          /\ Cardinality(PairsOf(out[i].properties)) = Len(out[i].properties)

\* every property value is one the specification types, or is missing
Supported(edges) ==
    \A i \in 1..Len(edges) : \A j \in 1..Len(edges[i].properties) :
        SpecType(edges[i].properties[j].val) >= 0 \/ edges[i].properties[j].val.t = "undef"

\* C1: for an adjacency list whose edges are all valid, the edges deserialize
\* returns for the buffer serialize wrote have the length, order, from and to
\* of the input edges, and each edge's properties are the input edge's
\* properties without the missing or null-valued ones and without those
\* outside the inferred schema, whatever values the later edges carry.
C1_RoundTrip ==
    (adjacencyList.present /\ AllValid /\ Supported(adjacencyList.edges) /\ ~tampered
        /\ bState = "done")
        => RoundTrips(adjacencyList.edges, bEdges)

IsPrefix(s, t) == Len(s) <= Len(t) /\ \A i \in 1..Len(s) : s[i] = t[i]

\* C2: on every buffer, altered ones included, the edges the streaming reader
\* has yielded are the first edges of the batch reader's list, the two lists
\* are equal once both readers have finished, and neither reader finishes on a
\* buffer on which the other throws (for the batch reader: on a buffer whose
\* magic, feature header and features are as written, the part its feature
\* reader reads).
C2_StreamEqualsBatch ==
    /\ (bState = "done" /\ sState = "done") => sYielded = bEdges
    /\ bState = "done" => (sState # "error" /\ IsPrefix(sYielded, bEdges))
    /\ (sState = "done" /\ IsPrefix(PlainFlatGeobuf(features), bytes)) => bState # "error"

C2_Witness ==
    /\ tampered /\ bState = "done" /\ sState = "done"
    /\ Len(sYielded) = 2 /\ sYielded[2].properties # <<>>
    /\ sYielded[1] # sYielded[2]

\* C3: serialize without an adjacency list writes magic, feature header and
\* features and nothing after them; on that buffer the offset locator returns
\* the buffer's length, deserialize returns no edge and the streaming reader
\* yields none.
C3_NoGraphSection ==
    (~adjacencyList.present /\ wState # "ready") =>
        /\ wState = "written"
        /\ bytes = PlainFlatGeobuf(features)
        /\ calculateFeaturesEndOffset(bytes, fromByteBuffer(bytes)) = Length(bytes)
        /\ bState # "error" /\ sState \in {"fresh", "done"}
        /\ bEdges = <<>> /\ sYielded = <<>>
        /\ bState = "done" => bFeatures = features

C3_Witness ==
    /\ ~adjacencyList.present /\ Len(features) = 2
    /\ bState = "done" /\ sState = "done"
    /\ bFeatures = features /\ bEdges = <<>>

\* C4: serialize with an adjacency list of no edges appends a graph section of
\* the header-size prefix 6 and a header of edge count 0 and column count 0,
\* with no edge record, and deserialize returns no edge for it.
C4_EmptyGraph ==
    (adjacencyList.present /\ adjacencyList.edges = <<>> /\ wState # "ready" /\ ~tampered) =>
        /\ wState = "written"
        /\ bytes = PlainFlatGeobuf(features) \o <<6, 0, 0, 0>> \o <<0, 0, 0, 0>> \o <<0, 0>>
        /\ bState # "error" /\ sState # "error"
        /\ bEdges = <<>> /\ sYielded = <<>>
        /\ bState \in {"parsed", "notified", "features", "done"} =>
              (bMeta.hasGraph /\ bMeta.edgeCount = 0 /\ bMeta.edgeColumns.isNull)

C4_Witness ==
    /\ adjacencyList.present /\ adjacencyList.edges = <<>> /\ ~tampered
    /\ Len(features) = 2 /\ bState = "done" /\ bMeta.hasGraph /\ bEdges = <<>>

\* C5: the columns of the written graph header are the keys, in order, of the
\* first edge with a non-empty property map, typed Bool for a boolean, Double
\* for a number, String for a string, Binary for a byte array, Json for
\* another object and String for null; with no such edge the column count is 0.
C5_SchemaInference ==
    (adjacencyList.present /\ wState = "written" /\ ~tampered) =>
        /\ getUint16(bytes, GraphOffset + 8) = Len(ExpectedColumns(adjacencyList.edges))
        /\ bState \in {"parsed", "notified", "features", "done"} =>
              /\ bMeta.edgeColumns.cols = ExpectedColumns(adjacencyList.edges)
              /\ bMeta.edgeColumns.isNull = (FirstPropertied(adjacencyList.edges) = {})

C5_Witness ==
    /\ adjacencyList.present /\ wState = "written" /\ ~tampered /\ bState = "parsed"
    /\ Len(adjacencyList.edges) = 2
    /\ ~adjacencyList.edges[1].hasProps
    /\ Len(adjacencyList.edges[2].properties) = 2
    /\ bMeta.edgeColumns.cols = <<[name |-> KeyE, type |-> ColString],
                                  [name |-> KeyW, type |-> ColDouble]>>

FirstRecord(b) == GraphOffset + 4 + sizeAt(b, GraphOffset)

\* the size field of the i-th edge record
RecordSize(b, i) == sizeAt(b, RecordStart(b, FirstRecord(b), i))

\* the property bytes of the i-th edge record
PropertyRegion(b, i) ==
    Slice(b, RecordStart(b, FirstRecord(b), i) + 12,
          RecordStart(b, FirstRecord(b), i) + 4 + RecordSize(b, i))

\* the column ordinals of the entries of a property region, in order
RECURSIVE EntryOrdinals(_, _, _)
EntryOrdinals(region, at, cols) ==
    IF at + 2 > Len(region) THEN <<>>
    ELSE IF getUint16(region, at) >= Len(cols) THEN <<getUint16(region, at)>>
    ELSE <<getUint16(region, at)>>
            \o EntryOrdinals(region,
                   at + 2 + EntryWidth(region, at + 2, cols[getUint16(region, at) + 1].type),
                   cols)

\* whether the edge has a value other than null under the key
Present(e, k) ==
    /\ e.hasProps
    /\ \E j \in 1..Len(e.properties) :
          e.properties[j].k = k /\ e.properties[j].val.t \notin {"null", "undef"}

RECURSIVE OrdinalsFrom(_, _, _)
OrdinalsFrom(e, cols, j) ==
    IF j > Len(cols) THEN <<>>
    ELSE (IF Present(e, cols[j].name) THEN <<j - 1>> ELSE <<>>)
            \o OrdinalsFrom(e, cols, j + 1)

\* whether the specification gives every value of the first propertied edge a type
InferenceOk(edges) ==
    \A j \in 1..Len(ExpectedColumns(edges)) : ExpectedColumns(edges)[j].type >= 0

\* C6: encoding the valid edges of a list against the inferred schema raises
\* no error, and the property region of each edge record holds exactly one
\* entry for each schema column, in schema order, under which the edge has a
\* value other than null, and no other entry.
C6_FrozenSchema ==
    (adjacencyList.present /\ AllValid /\ InferenceOk(adjacencyList.edges) /\ ~tampered) =>
        /\ wState # "failed"
        /\ wState = "written" =>
              \A i \in 1..Len(adjacencyList.edges) :
                  EntryOrdinals(PropertyRegion(bytes, i), 0,
                                ExpectedColumns(adjacencyList.edges))
                      = OrdinalsFrom(adjacencyList.edges[i],
                                     ExpectedColumns(adjacencyList.edges), 1)

\* C7: serialize raises an error and returns no bytes when some edge has an
\* index below 0 or not below the feature count, or is a self-loop; with no
\* feature every edge is rejected.
C7_WriteValidation ==
    (adjacencyList.present /\ ~AllValid /\ wState # "ready") =>
        /\ wState = "failed"
        /\ wErr.kind # "none"
        /\ bytes = <<>>

C7_Witness ==
    /\ wState = "failed" /\ Len(adjacencyList.edges) = 2
    /\ Len(features) = 2
    /\ ValidEdge(adjacencyList.edges[1], 2)
    /\ adjacencyList.edges[2].from = 1 /\ adjacencyList.edges[2].to = 2

\* "Invalid 'from' index"
TxtInvalidFrom == <<73, 110, 118, 97, 108, 105, 100, 32, 39, 102, 114, 111, 109, 39, 32, 105, 110, 100, 101, 120>>
\* "Invalid 'to' index"
TxtInvalidTo == <<73, 110, 118, 97, 108, 105, 100, 32, 39, 116, 111, 39, 32, 105, 110, 100, 101, 120>>
\* "self-loops are not allowed"
TxtSelfLoopsLower == <<115, 101, 108, 102, 45, 108, 111, 111, 112, 115, 32, 97, 114, 101, 32, 110, 111, 116, 32, 97, 108, 108, 111, 119, 101, 100>>
\* "Self-loops are not allowed"
TxtSelfLoops == <<83, 101, 108, 102, 45, 108, 111, 111, 112, 115, 32, 97, 114, 101, 32, 110, 111, 116, 32, 97, 108, 108, 111, 119, 101, 100>>

\* the first edge that fails the validation
FirstInvalid ==
    adjacencyList.edges[Least({i \in 1..Len(adjacencyList.edges) :
                                  ~ValidEdge(adjacencyList.edges[i], Len(features))})]

\* the message names what the first invalid edge fails
MessageNames(e, msg, selfLoopPhrase) ==
    IF e.from < 0 \/ e.from >= Len(features)
    THEN Contains(msg, TxtInvalidFrom) /\ Contains(msg, IntToString(e.from))
    ELSE IF e.to < 0 \/ e.to >= Len(features)
    THEN Contains(msg, TxtInvalidTo) /\ Contains(msg, IntToString(e.to))
    ELSE Contains(msg, selfLoopPhrase)

NoEdgeHasProps == \A i \in 1..Len(adjacencyList.edges) : ~adjacencyList.edges[i].hasProps

\* C8 as stated: the error for an out-of-range from contains "Invalid 'from'
\* index" and the index, for an out-of-range to "Invalid 'to' index" and the
\* index, and for a self-loop the phrase "self-loops are not allowed".
C8_MessagesAsStated ==
    (adjacencyList.present /\ NoEdgeHasProps /\ wState = "failed")
        => MessageNames(FirstInvalid, wErr.msg, TxtSelfLoopsLower)

\* C8: the error for an out-of-range from contains "Invalid 'from' index" and
\* the index, for an out-of-range to "Invalid 'to' index" and the index, and
\* for a self-loop the phrase "Self-loops are not allowed".
C8_Messages ==
    (adjacencyList.present /\ NoEdgeHasProps /\ wState = "failed")
        => MessageNames(FirstInvalid, wErr.msg, TxtSelfLoops)

C8_Witness ==
    /\ wState = "failed" /\ Len(features) = 2 /\ Len(adjacencyList.edges) = 2
    /\ ValidEdge(adjacencyList.edges[1], 2)
    /\ adjacencyList.edges[2].from = 1 /\ adjacencyList.edges[2].to = 1
    /\ Contains(wErr.msg, TxtSelfLoops)

\* the i-th edge of a list read from the buffer has properties, and they are
\* empty when the header declares no columns or the record has no property bytes
PropertiesObject(edges, columns) ==
    \A i \in 1..Len(edges) :
        /\ edges[i].hasProps
        /\ (columns.isNull \/ RecordSize(bytes, i) <= 8) => edges[i].properties = <<>>

\* C9: every edge deserialize returns or the streaming reader yields has a
\* properties object; it is the empty map when the header declares no columns
\* or the edge record carries no property bytes.
C9_PropertiesObject ==
    /\ PropertiesObject(bEdges, bMeta.edgeColumns)
    /\ PropertiesObject(sYielded, sColumns)

C9_Witness ==
    /\ bState = "done" /\ sState = "done" /\ Len(bEdges) = 2 /\ sYielded = bEdges
    /\ ~bMeta.edgeColumns.isNull
    /\ bEdges[1].hasProps /\ bEdges[1].properties = <<>>
    /\ bEdges[2].properties # <<>>

\* C10: with an observer, deserialize calls it exactly once, when the feature
\* header and the graph header are parsed and no feature and no edge has been
\* read; without one it calls nothing.
C10_ObserverOrdering ==
    /\ ~bObserver => obsLog = <<>>
    /\ bState \in {"idle", "parsed"} => obsLog = <<>>
    /\ Len(obsLog) <= 1
    /\ (bObserver /\ bState \in {"notified", "features", "done"}) =>
          /\ Len(obsLog) = 1
          /\ obsLog[1].meta = bMeta
          /\ obsLog[1].features = 0 /\ obsLog[1].edges = 0
          /\ ~tampered =>
                /\ obsLog[1].meta.featuresCount = Len(features)
                /\ obsLog[1].meta.hasGraph = adjacencyList.present
                /\ obsLog[1].meta.edgeCount = Len(adjacencyList.edges)

C10_Witness ==
    /\ bObserver /\ bState = "done" /\ Len(obsLog) = 1
    /\ Len(bFeatures) = 2 /\ Len(bEdges) = 2
    /\ obsLog[1].meta.hasGraph /\ obsLog[1].features = 0 /\ obsLog[1].edges = 0

\* the first n column descriptors of a graph header, read from byte `at`
RECURSIVE HeaderColumns(_, _, _)
HeaderColumns(b, at, n) ==
    IF n = 0 THEN <<>>
    ELSE <<[name |-> Utf8Decode(Slice(b, at + 2, at + 2 + getUint16(b, at))),
            type |-> ByteAt(b, at + 2 + getUint16(b, at))]>>
            \o HeaderColumns(b, at + 3 + getUint16(b, at), n - 1)

\* C11: the value the observer receives has graph null exactly when the
\* buffer ends where its features end, and then features.featuresCount is the
\* number of features; when a graph section follows, graph.edgeCount is the
\* edge count of the graph header, graph.edgeColumns is null (not an empty
\* list) exactly when the header's column count is zero, and otherwise lists
\* the header's columns in header order (for an unaltered buffer: the columns
\* of the first edge with properties, in that edge's key order).
C11_ObserverMetadata ==
    \A k \in 1..Len(obsLog) :
        /\ obsLog[k].meta.hasGraph = (GraphOffset < Length(bytes))
        /\ ~obsLog[k].meta.hasGraph => obsLog[k].meta.featuresCount = Len(features)
        /\ obsLog[k].meta.hasGraph =>
              /\ viewHas(bytes, GraphOffset + 4, 4)
              /\ obsLog[k].meta.edgeCount = getUint32(bytes, GraphOffset + 4)
              /\ obsLog[k].meta.edgeColumns.isNull = (getUint16(bytes, GraphOffset + 8) = 0)
              /\ obsLog[k].meta.edgeColumns.cols
                    = HeaderColumns(bytes, GraphOffset + 10, getUint16(bytes, GraphOffset + 8))
              /\ (~tampered /\ Supported(adjacencyList.edges)) =>
                    obsLog[k].meta.edgeColumns.cols = ExpectedColumns(adjacencyList.edges)

C11_Witness ==
    /\ Len(obsLog) = 1 /\ obsLog[1].meta.hasGraph /\ obsLog[1].meta.edgeCount = 2
    /\ ~obsLog[1].meta.edgeColumns.isNull
    /\ Len(obsLog[1].meta.edgeColumns.cols) = 2
    /\ obsLog[1].meta.edgeColumns.cols[1].name = KeyE
    /\ obsLog[1].meta.edgeColumns.cols[2].name = KeyW

\* the columns the graph header of the buffer describes (no more than it has
\* bytes)
HeaderCols ==
    HeaderColumns(bytes, GraphOffset + 10,
                  Min(Max(getUint16(bytes, GraphOffset + 8), 0), Length(bytes)))

\* the edge count the graph header of the buffer gives
HeaderEdgeCount == sizeAt(bytes, GraphOffset + 4)

\* whether the graph header lies within the buffer, describes Double and
\* String columns only (cols) and counts no more edges than the buffer has
\* room for
HeaderPlain(cols) ==
    /\ GraphOffset + 10 <= Length(bytes)
    /\ sizeAt(bytes, GraphOffset) >= 0
    /\ HeaderEdgeCount >= 0 /\ HeaderEdgeCount <= Length(bytes)
    /\ FirstRecord(bytes) + 12 * HeaderEdgeCount <= Length(bytes)
    /\ \A j \in 1..Len(cols) : cols[j].type \in {ColDouble, ColString}

\* whether the first i edge records have sizes of 8 or more and lie within
\* the buffer
RecordsInside(i) ==
    \A j \in 1..i :
        /\ RecordSize(bytes, j) >= 8
        /\ RecordStart(bytes, FirstRecord(bytes), j) + 4 + RecordSize(bytes, j) <= Length(bytes)

\* whether the value of a Double or String entry lies within the region
EntryInside(region, at, type) ==
    \/ type = ColDouble /\ at + 8 <= Len(region)
    \/ /\ type = ColString /\ sizeAt(region, at) >= 0
       /\ at + 4 + sizeAt(region, at) <= Len(region)

\* the value the format gives a Double or String entry
EntryValue(region, at, type) ==
    IF type = ColDouble THEN DecodeFloat64(Slice(region, at, at + 8))
    ELSE VStr(Utf8Decode(Slice(region, at + 4, at + 4 + sizeAt(region, at))))

\* the entries of a property region read in order up to its end or to the
\* first ordinal outside the columns: [clean, stopped, props], clean when
\* every entry read lies within the region
RECURSIVE KnownEntries(_, _, _, _)
KnownEntries(region, at, cols, acc) ==
    IF at = Len(region) THEN [clean |-> TRUE, stopped |-> FALSE, props |-> acc]
    ELSE IF at + 2 > Len(region) THEN [clean |-> FALSE, stopped |-> FALSE, props |-> acc]
    ELSE IF getUint16(region, at) >= Len(cols)
    THEN [clean |-> TRUE, stopped |-> TRUE, props |-> acc]
    ELSE IF ~EntryInside(region, at + 2, cols[getUint16(region, at) + 1].type)
    THEN [clean |-> FALSE, stopped |-> FALSE, props |-> acc]
    ELSE KnownEntries(region,
             at + 2 + EntryWidth(region, at + 2, cols[getUint16(region, at) + 1].type),
             cols,
             Append(acc, Prop(cols[getUint16(region, at) + 1].name,
                              EntryValue(region, at + 2,
                                         cols[getUint16(region, at) + 1].type))))

\* whether a property region reaches, after entries that lie within it, an
\* ordinal outside the columns
RECURSIVE StopRegion(_, _, _)
StopRegion(region, at, cols) ==
    IF at + 2 > Len(region) THEN FALSE
    ELSE IF getUint16(region, at) >= Len(cols) THEN TRUE
    ELSE IF ~EntryInside(region, at + 2, cols[getUint16(region, at) + 1].type) THEN FALSE
    ELSE StopRegion(region,
             at + 2 + EntryWidth(region, at + 2, cols[getUint16(region, at) + 1].type),
             cols)

DistinctKeys(props) ==
    \A a \in 1..Len(props) : \A b \in 1..Len(props) : props[a].k = props[b].k => a = b

\* whether the entries read (k) of a record's property region reach, after
\* entries that lie within the region, an ordinal outside the columns
Stopped(k) == k.clean /\ k.stopped /\ DistinctKeys(k.props)

\* whether the i-th record lies within the buffer and its property region is
\* such a region, cols being the header's columns
StopCaseOf(i, cols) ==
    /\ HeaderPlain(cols) /\ i <= HeaderEdgeCount /\ RecordsInside(i)
    /\ StopRegion(PropertyRegion(bytes, i), 0, cols)
    /\ Stopped(KnownEntries(PropertyRegion(bytes, i), 0, cols, <<>>))

StopCase(i) == StopCaseOf(i, HeaderCols)

\* whether the from and to of the edge are the eight bytes after the size
\* field of the record at `at`
ReadFrom(e, at) ==
    /\ viewHas(bytes, at + 4, 8)
    /\ e.from = getUint32(bytes, at + 4)
    /\ e.to = getUint32(bytes, at + 8)

\* the i-th edge against the entries read (k) of the i-th record: the edge has
\* exactly the properties before the unknown ordinal, and the edge after it
\* is read where the size field says
StopKept(edges, i, k) ==
    Stopped(k) =>
        /\ edges[i].properties = k.props
        /\ i < Len(edges) =>
              ReadFrom(edges[i + 1], RecordStart(bytes, FirstRecord(bytes), i + 1))

StopsKept(edges, cols) ==
    HeaderPlain(cols) =>
        \A i \in 1..Len(edges) :
            (RecordsInside(i) /\ StopRegion(PropertyRegion(bytes, i), 0, cols)) =>
                StopKept(edges, i, KnownEntries(PropertyRegion(bytes, i), 0, cols, <<>>))

\* C12: when the property decoder meets a column ordinal that is not below
\* the header's column count, it stops reading that edge's properties and
\* raises no error: the edge is returned with exactly the properties decoded
\* before that ordinal, the next edge is read at the offset the size field
\* gives, and neither reader fails at such a record.
C12_ForwardCompatibleStop ==
    /\ bState = "done" => StopsKept(bEdges, HeaderCols)
    /\ sState \in {"done", "error"} => StopsKept(sYielded, HeaderCols)
    /\ sState = "error" => ~StopCaseOf(Len(sYielded) + 1, HeaderCols)
    /\ (bState = "error" /\ bMeta.hasGraph /\ bErr # BadMagic) =>
          \E i \in 1..Clip(bMeta.edgeCount) : ~StopCaseOf(i, HeaderCols)

C12_Witness ==
    /\ bState = "done" /\ sState = "done" /\ Len(bEdges) = 2 /\ sYielded = bEdges
    /\ StopCase(1)
    /\ Len(HeaderCols) = 2
    /\ bEdges[1].properties = <<Prop(KeyW, VNum(3))>>
    /\ bEdges[2].from = 1 /\ bEdges[2].to = 0

\* the offsets in the buffer of the property entries of one record, whose
\* first entry is at `at`; ords are the ordinals the writer gave the entries
RECURSIVE EntryOffsets(_, _, _, _)
EntryOffsets(b, at, ords, cols) ==
    IF ords = <<>> THEN <<>>
    ELSE <<at>> \o EntryOffsets(b, at + 2 + EntryWidth(b, at + 2, cols[ords[1] + 1].type),
                                Tail(ords), cols)

\* the offsets of the property entries of the i-th record of a buffer written
\* for the edges
OffsetsOf(edges, i) ==
    EntryOffsets(bytes, RecordStart(bytes, FirstRecord(bytes), i) + 12,
                 OrdinalsFrom(edges[i], ExpectedColumns(edges), 1), ExpectedColumns(edges))

\* whether the buffer differs from the bytes written (w) only in the ordinals
\* of property entries, each of which is now outside the columns
OnlyOrdinalsUnknown(edges, w) ==
    /\ Length(bytes) = Len(w) /\ bytes # w
    /\ \A p \in 1..Length(bytes) :
          bytes[p] # w[p] =>
              \E i \in 1..Len(edges) : \E j \in 1..Len(OffsetsOf(edges, i)) :
                  /\ p = OffsetsOf(edges, i)[j] + 1
                  /\ getUint16(bytes, OffsetsOf(edges, i)[j]) >= Len(ExpectedColumns(edges))

\* whether the entry at offset `at` of the buffer, if its ordinal is within
\* the columns, is among the properties of the edge read
EntryDecoded(e, at, cols) ==
    getUint16(bytes, at) < Len(cols) =>
        Prop(cols[getUint16(bytes, at) + 1].name,
             EntryValue(bytes, at + 2, cols[getUint16(bytes, at) + 1].type))
            \in PairsOf(e.properties)

\* C13: unknown column indices are skipped: in a buffer some of whose
\* property entries carry a column index the reader does not know, every entry
\* whose index is below the reader's column count is decoded into its edge's
\* properties, entries that follow an unknown index in the same edge included.
C13_UnknownSkipped ==
    (tampered /\ bState = "done" /\ Supported(adjacencyList.edges)
        /\ OnlyOrdinalsUnknown(adjacencyList.edges, serialize(features, adjacencyList).bytes))
        => /\ Len(bEdges) = Len(adjacencyList.edges)
           /\ \A i \in 1..Len(bEdges) :
                 \A j \in 1..Len(OffsetsOf(adjacencyList.edges, i)) :
                     EntryDecoded(bEdges[i], OffsetsOf(adjacencyList.edges, i)[j],
                                  ExpectedColumns(adjacencyList.edges))

\* the graph section of a written buffer
GraphSectionBytes == Slice(bytes, GraphOffset, Length(bytes))

\* 01 00 00 00 | 01 00 | 06 00 | "weight" | 0A | 12 00 00 00 | 00 00 00 00 |
\* 01 00 00 00 | 00 00 | 00 00 00 00 00 00 F8 3F: the example's graph section
\* after its first four bytes
ExampleBody ==
    <<1, 0, 0, 0, 1, 0, 6, 0>> \o KeyWeight \o <<10>>
        \o <<18, 0, 0, 0, 0, 0, 0, 0, 1, 0, 0, 0, 0, 0, 0, 0, 0, 0, 0, 0, 248, 63>>

ExampleWritten ==
    /\ wState = "written" /\ ~tampered
    /\ Len(features) = 2 /\ adjacencyList = Adj(ExampleEdges)

\* C14 as stated: for two features and the single edge {from: 0, to: 1,
\* properties: {weight: 1.5}} the graph section serialize writes is
\* 0C 00 00 00 followed by the example's body: the graph-header-size prefix is
\* 12 and the edge size is 18.
C14_LayoutAsDocumented ==
    ExampleWritten => GraphSectionBytes = <<12, 0, 0, 0>> \o ExampleBody

\* C14, amended: for two features and the single edge {from: 0, to: 1,
\* properties: {weight: 1.5}} the graph section serialize writes is
\* 0F 00 00 00 followed by the example's body: the graph-header-size prefix is
\* 15, the length of the header that follows it (4 + 2 + 2 + 6 + 1), and the
\* edge size is 18.
C14_Layout ==
    ExampleWritten =>
        /\ GraphSectionBytes = <<15, 0, 0, 0>> \o ExampleBody
        /\ sizeAt(bytes, GraphOffset) = 4 + 2 + 2 + Len(KeyWeight) + 1
        /\ RecordSize(bytes, 1) = 18

C14_Witness ==
    /\ ExampleWritten
    /\ Len(GraphSectionBytes) = 41
    /\ bState = "done" /\ bEdges = ExampleEdges

\* a buffer as serialize wrote it, for property values the format types
WellFormed == wState = "written" /\ ~tampered /\ Supported(adjacencyList.edges)

\* the edges yielded so far are the first written edges, in their order
YieldedInOrder ==
    /\ Len(sYielded) <= Len(adjacencyList.edges)
    /\ \A i \in 1..Len(sYielded) :
          /\ sYielded[i].from = adjacencyList.edges[i].from
          /\ sYielded[i].to = adjacencyList.edges[i].to
          /\ ReadFrom(sYielded[i], RecordStart(bytes, FirstRecord(bytes), i))

IteratorStates ==
    WellFormed =>
        /\ sState # "error"
        /\ YieldedInOrder
        /\ sState = "done" =>
              /\ Len(sYielded) = Len(adjacencyList.edges)
              /\ adjacencyList.present => Len(sYielded) = sizeAt(bytes, GraphOffset + 4)
        /\ (~adjacencyList.present /\ sState # "fresh") =>
              (sState = "done" /\ sYielded = <<>>)

\* one step of the iterator on a well-formed buffer yields the next edge while
\* edges are left and completes when none is; a completed iterator stays as
\* it is
IteratorStep ==
    /\ sState \in {"done", "error"} => UNCHANGED streamVars
    /\ (WellFormed /\ streamVars' # streamVars) =>
          IF Len(sYielded) < Len(adjacencyList.edges)
          THEN sState' = "suspended" /\ Len(sYielded') = Len(sYielded) + 1
          ELSE sState' = "done" /\ sYielded' = sYielded

\* C15: on a well-formed buffer deserializeGraphEdges yields exactly edgeCount
\* edges, in the order the records were written, and then completes; a
\* completed iterator yields nothing on any further step; on a buffer without
\* a graph section the first step completes the iterator without an edge.
C15_IteratorShape == [](IteratorStates) /\ [][IteratorStep]_vars

C15_Witness ==
    /\ WellFormed /\ sState = "done" /\ Len(sYielded) = 2
    /\ sYielded[1].from = 0 /\ sYielded[2].from = 1
    /\ sYielded[2].properties # <<>>

\* C16: an edge record whose size field is below 8, or whose 4 + size bytes
\* reach past the end of the buffer, makes the readers fail: every edge the
\* batch reader returns and every edge the streaming reader yields comes from
\* a record of size 8 or more that lies within the buffer.
C16_InvalidEdgeSize ==
    /\ bState = "done" => RecordsInside(Len(bEdges))
    /\ RecordsInside(Len(sYielded))

\* whether some column descriptor of the graph header of the buffer has a
\* type byte outside 0..14
BadColumnType ==
    /\ GraphOffset + 10 <= Length(bytes)
    /\ \E j \in 1..Len(HeaderCols) :
          HeaderCols[j].type >= 0 /\ HeaderCols[j].type \notin ColByte..ColBinary

\* C17: a graph header with a column type byte outside 0..14 fails when the
\* header is parsed: deserialize fails before the observer is called and
\* parseGraphSectionHeader has returned no metadata, and the streaming reader
\* fails before it yields an edge, whether or not an edge carries a value of
\* that column.
C17_InvalidColumnType ==
    BadColumnType =>
        /\ bState \in {"idle", "error"} /\ obsLog = <<>>
        /\ sState \in {"fresh", "error"} /\ sYielded = <<>>

\* whether the first eight bytes of the buffer are neither magic
BadMagicBytes ==
    /\ Slice(bytes, 0, MagicLen) # magicbytes
    /\ Slice(bytes, 0, MagicLen) # fgbMagicBytes

\* C18: on a buffer whose first eight bytes are neither the FGG magic nor the
\* FGB magic both readers fail before they locate the graph section:
\* deserialize fails without parsing a graph header or calling the observer,
\* and deserializeGraphEdges fails without yielding an edge.
C18_BadMagic ==
    (wState = "written" /\ BadMagicBytes) =>
        /\ bState \in {"idle", "error"} /\ obsLog = <<>> /\ bEdges = <<>>
        /\ sState \in {"fresh", "error"} /\ sYielded = <<>>

\* C19: when the buffer ends before featuresCount size-prefixed features were
\* consumed, the offset locator raises an error: deserialize fails without
\* reporting metadata, and deserializeGraphEdges fails instead of completing
\* as if the buffer had no graph section.
C19_Truncated ==
    (wState = "written" /\ Length(bytes) < GraphOffset) =>
        /\ bState \in {"idle", "error"} /\ obsLog = <<>>
        /\ sState \in {"fresh", "error"}

\* the plain FlatGeobuf file for the features: the FlatGeobuf magic, the
\* feature header and the size-prefixed features
FlatGeobufFile(fs) ==
    fgbMagicBytes \o SubSeq(PlainFlatGeobuf(fs), MagicLen + 1, Len(PlainFlatGeobuf(fs)))

WrittenWithoutGraph == ~adjacencyList.present /\ wState = "written" /\ ~tampered

\* C20 as stated: the whole output of serialize without an adjacency list,
\* its 8 magic bytes included, is the plain FlatGeobuf file for the features.
C20_IdenticalToFlatGeobuf ==
    WrittenWithoutGraph => bytes = FlatGeobufFile(features)

\* C20, amended: the output of serialize without an adjacency list has the
\* length of the plain FlatGeobuf file for the features and equals it in every
\* byte after the magic; its magic is the FGG magic, which differs from the
\* FlatGeobuf magic in bytes 2, 3 and 6 (67 01 .. 67 for 62 03 .. 62).
C20_FlatGeobufBehindMagic ==
    WrittenWithoutGraph =>
        /\ Length(bytes) = Len(FlatGeobufFile(features))
        /\ Slice(bytes, 0, MagicLen) = magicbytes
        /\ \A p \in 1..Length(bytes) :
              bytes[p] # FlatGeobufFile(features)[p] <=> p \in {3, 4, 7}

C20_Witness ==
    /\ WrittenWithoutGraph /\ Len(features) = 2
    /\ Length(bytes) = GraphOffset
    /\ bytes[3] = 103 /\ bytes[4] = 1 /\ bytes[7] = 103
    /\ bState = "done" /\ bFeatures = features

\* whether a value is none of boolean, number, string, byte array, object and
\* null (a key whose value is undefined counts as a missing property)
NotAPropertyValue(val) ==
    val.t \notin {"bool", "num", "nan", "f64", "str", "bin", "arr", "obj", "null", "undef"}

\* the edges (1-based) that carry such a value
EdgesWithUnknownValue(edges) ==
    {i \in 1..Len(edges) :
        edges[i].hasProps
            /\ \E j \in 1..Len(edges[i].properties) :
                  NotAPropertyValue(edges[i].properties[j].val)}

\* C21: serialize raises an error, and returns no bytes, whenever a property
\* value of some edge of the adjacency list, the edge the schema is inferred
\* from or any other, is not a boolean, number, string, byte array, object or
\* null.
C21_UnknownPropertyType ==
    (adjacencyList.present /\ wState # "ready"
        /\ EdgesWithUnknownValue(adjacencyList.edges) # {})
        => (wState = "failed" /\ wErr.kind # "none" /\ bytes = <<>>)

\* the edge a reader makes of the record whose size field is at `at`
EdgeAt(at, columns) == parseEdge(bytes, at + SIZE_PREFIX_LEN, sizeAt(bytes, at), columns)

\* whether reading the record at `at` raises
RecordRaisesAt(at, columns) ==
    at > Len(bytes) \/ sizeAt(bytes, at) < 0 \/ EdgeAt(at, columns).err.kind # "none"

\* whether the record at `at` is read without an error, as the edge e
RecordReadsAt(at, columns, e) ==
    /\ at <= Len(bytes) /\ sizeAt(bytes, at) >= 0
    /\ EdgeAt(at, columns) = [err |-> NoErr, edge |-> e, reach |-> EdgeAt(at, columns).reach]

\* the streaming reader (p: what it read of the graph header) has yielded the
\* edges of the records before the first record whose reading raises, in
\* order, and nothing else
YieldedBeforeMalformed(p) ==
    /\ Len(sYielded) < Clip(p.edgeCount)
    /\ \A i \in 1..Len(sYielded) :
          RecordReadsAt(RecordStart(bytes, FirstRecord(bytes), i), p.columns, sYielded[i])
    /\ RecordRaisesAt(RecordStart(bytes, FirstRecord(bytes), Len(sYielded) + 1), p.columns)

\* whether the graph header was read (p) and the error is that of an edge record
MalformedRecord(p) == ~p.done /\ p.err.kind = "none"

\* C22: when reading edge record k of a graph section raises, the streaming
\* reader has yielded the edges of the records before it, in order, raises at
\* that record and yields nothing afterwards; deserialize on the same buffer
\* fails with the same error and returns neither features nor edges.
C22_NoPartialResults ==
    /\ bState = "error" => (bFeatures = <<>> /\ bEdges = <<>> /\ bErr.kind # "none")
    /\ (sState = "error" /\ MalformedRecord(deserializeGraphEdges(bytes))) =>
          /\ YieldedBeforeMalformed(deserializeGraphEdges(bytes))
          /\ bState # "done"
          /\ (bState = "error" /\ bErr # BadMagic) => bErr = sErr

C22_Witness ==
    /\ tampered /\ sState = "error" /\ bState = "error" /\ bErr = sErr
    /\ MalformedRecord(deserializeGraphEdges(bytes))
    /\ Len(sYielded) = 1 /\ sYielded[1].properties # <<>>
    /\ bMeta.hasGraph /\ bMeta.edgeCount = 2
    /\ bFeatures = <<>> /\ bEdges = <<>>

\* a buffer serialize returned, unaltered
Written == wState = "written" /\ ~tampered

\* whether the buffer starts with the bytes of `plain`, which end at the offset
EndsAt(plain, offset) == offset = Len(plain) /\ IsPrefix(plain, bytes)

\* C23: on every buffer serialize returns, the offset the offset locator
\* computes is 8 + 4 + the feature header's length + the sum over the features
\* of 4 + the feature's length; it is the position at which serialize placed
\* the graph section (the bytes from it on are the graph section built for the
\* adjacency list) and the length of what serialize returns for the same
\* features without an adjacency list; deserialize reads its graph header
\* there.
C23_LocatorAgreesWithWriter ==
    Written =>
        /\ calculateFeaturesEndOffset(bytes, fromByteBuffer(bytes)) = GraphOffset
        /\ GraphOffset
              = MagicLen + SIZE_PREFIX_LEN + Clip(readUint32(bytes, MagicLen))
                    + FeaturesLength(features, 1)
        /\ EndsAt(serialize(features, NoAdj).bytes, GraphOffset)
        /\ adjacencyList.present =>
              GraphSectionBytes = buildGraphSection(adjacencyList.edges, Len(features)).bytes
        /\ ~adjacencyList.present => GraphOffset = Length(bytes)
        /\ bState \in {"parsed", "notified", "features", "done"} =>
              (bMeta.offset = GraphOffset /\ bMeta.hasGraph = adjacencyList.present)

C23_Witness ==
    /\ Written /\ adjacencyList.present /\ Len(adjacencyList.edges) = 2
    /\ adjacencyList.edges[2].properties # <<>>
    /\ Len(features) = 2 /\ GraphOffset = 24 /\ Length(bytes) > GraphOffset
    /\ bState = "done" /\ bMeta.offset = 24 /\ Len(bEdges) = 2

\* a buffer serialize returned for an adjacency list, unaltered
WrittenGraph == Written /\ adjacencyList.present

\* the offset after n column descriptors, the first being at `at`
RECURSIVE DescriptorsEnd(_, _, _)
DescriptorsEnd(b, at, n) ==
    IF n = 0 THEN at ELSE DescriptorsEnd(b, at + 2 + getUint16(b, at) + 1, n - 1)

\* 6 + the sum over the columns, from the j-th on, of 3 + the name's byte length
RECURSIVE HeaderLength(_, _)
HeaderLength(cols, j) ==
    IF j > Len(cols) THEN 6 ELSE 3 + Len(Utf8Encode(cols[j].name)) + HeaderLength(cols, j + 1)

\* whether property entries of the columns fill the region from `at` on exactly
RECURSIVE EntriesFill(_, _, _)
EntriesFill(region, at, cols) ==
    IF at = Len(region) THEN TRUE
    ELSE IF at + 2 > Len(region) \/ getUint16(region, at) >= Len(cols) THEN FALSE
    ELSE EntriesFill(region,
             at + 2 + EntryWidth(region, at + 2, cols[getUint16(region, at) + 1].type),
             cols)

\* the sum over the first n edge records of 4 + the record's size field
RECURSIVE RecordsLength(_, _)
RecordsLength(b, n) ==
    IF n = 0 THEN 0 ELSE SIZE_PREFIX_LEN + RecordSize(b, n) + RecordsLength(b, n - 1)

\* the framing of the edge record at `at`: its size field is 8 + the length
\* of the property bytes written for the edge (props), which follow from and
\* to (region) and consist of whole entries
RecordFramed(at, region, props, cols) ==
    /\ props.err.kind = "none"
    /\ sizeAt(bytes, at) = 8 + Len(props.bytes)
    /\ region = props.bytes
    /\ EntriesFill(region, 0, cols)
    /\ at + SIZE_PREFIX_LEN + sizeAt(bytes, at) <= Length(bytes)

\* the framing of the edge record at `at` and of the bytes after its from and to
RecordFramedAt(at, props, cols) ==
    RecordFramed(at, Slice(bytes, at + 12, at + SIZE_PREFIX_LEN + sizeAt(bytes, at)),
                 props, cols)

\* the framing of the graph section written for the edges, columns being the
\* schema inferred for them
SectionFramed(edges, columns) ==
    /\ sizeAt(bytes, GraphOffset) = HeaderLength(columns.cols, 1)
    /\ DescriptorsEnd(bytes, GraphOffset + 10, getUint16(bytes, GraphOffset + 8))
          = FirstRecord(bytes)
    /\ getUint16(bytes, GraphOffset + 8) = Len(columns.cols)
    /\ sizeAt(bytes, GraphOffset + 4) = Len(edges)
    /\ \A i \in 1..Len(edges) :
          RecordFramedAt(RecordStart(bytes, FirstRecord(bytes), i),
                         encodeEdgeProperties(edges[i], columns), columns.cols)
    /\ Len(GraphSectionBytes)
          = SIZE_PREFIX_LEN + sizeAt(bytes, GraphOffset) + RecordsLength(bytes, Len(edges))

\* C24: in every graph section serialize writes, the header-size prefix is
\* the byte length of the header that follows (6 + the sum over the columns of
\* 3 + the name's byte length), the header's edge count is the number of edge
\* records that follow, each record's size field is 8 + the length of its
\* property bytes (its own four bytes not counted), and the section's length
\* is 4 + the header length + the sum over the edges of 4 + size.
C24_FramingConsistency ==
    WrittenGraph =>
        SectionFramed(adjacencyList.edges, introspectEdgeColumns(adjacencyList.edges))

C24_Witness ==
    /\ WrittenGraph /\ Len(adjacencyList.edges) = 2
    /\ sizeAt(bytes, GraphOffset) = 15 /\ getUint16(bytes, GraphOffset + 8) = 2
    /\ RecordSize(bytes, 1) = 8 + 10 + 8 /\ RecordSize(bytes, 2) = 8
    /\ Len(GraphSectionBytes) = 4 + 15 + (4 + 26) + (4 + 8)
    /\ bState = "done"

\* whether the buffer is the written buffer (w) with the two property entries
\* of some edge record, of an edge with two properties, in the other order
Reordered(w) ==
    /\ tampered /\ adjacencyList.present
    /\ \E i \in 1..Len(adjacencyList.edges) : Len(adjacencyList.edges[i].properties) = 2
    /\ Length(bytes) = Len(w) /\ bytes # w
    /\ \E i \in 1..Len(adjacencyList.edges) :
          bytes = ReorderRecord(w, GraphOffset, adjacencyList.edges, i)

\* the edges read have the from, to and property maps (as sets of key and
\* value, each key once) of the edges in `written`
SameMaps(edges, written) ==
    \A i \in 1..Len(edges) :
        /\ edges[i].from = written[i].from /\ edges[i].to = written[i].to
        /\ PairsOf(edges[i].properties) = PairsOf(written[i].properties)
        /\ DistinctKeys(edges[i].properties)

\* the readers on a reordered buffer against the edges read from the written one
SameDecoded(written) ==
    /\ bState # "error" /\ sState # "error"
    /\ Len(sYielded) <= Len(written) /\ SameMaps(sYielded, written)
    /\ sState = "done" => Len(sYielded) = Len(written)
    /\ bState = "done" => (Len(bEdges) = Len(written) /\ SameMaps(bEdges, written))

\* C25: for an edge record whose property region holds entries for distinct
\* known column ordinals, the decoded property map does not depend on the
\* order of the entries: with the entries of a record in descending order of
\* ordinal both readers decode, for every edge, the same keys and values as
\* from the buffer that has them in ascending order, and raise no error.
C25_OrderIndependence ==
    Reordered(serialize(features, adjacencyList).bytes) =>
        SameDecoded(parseGraphSection(serialize(features, adjacencyList).bytes,
                                      GraphOffset).edges)

C25_Witness ==
    /\ Reordered(serialize(features, adjacencyList).bytes)
    /\ bState = "done" /\ sState = "done" /\ sYielded = bEdges /\ Len(bEdges) = 2
    /\ getUint16(bytes, RecordStart(bytes, FirstRecord(bytes), 2) + 12) = 1
    /\ bEdges[2].properties = <<Prop(KeyE, VStr(<<233>>)), Prop(KeyW, VNum(3))>>
    /\ Len(bEdges[1].properties) = 2

\* a generator stepped alone until it has returned or thrown
RECURSIVE RunAlone(_, _)
RunAlone(buf, g) ==
    IF g.state \in {"done", "error"} THEN g ELSE RunAlone(buf, generatorNext(buf, g))

\* what a generator has yielded, and how it ended, against the run alone
AsAlone(state, yielded, err, alone) ==
    /\ IsPrefix(yielded, alone.yielded)
    /\ state \in {"done", "error"} =>
          (state = alone.state /\ yielded = alone.yielded /\ err = alone.err)
    /\ state = "fresh" => yielded = <<>>

\* every generator over the buffer against the run alone
ReadersAsAlone(alone) ==
    /\ AsAlone(sState, sYielded, sErr, alone)
    /\ \A r \in OtherReaders : AsAlone(others[r].state, others[r].yielded, others[r].err, alone)
    /\ alone.state = "done"
    /\ bState = "done" => bEdges = alone.yielded

ReadersAgree == wState = "written" => ReadersAsAlone(RunAlone(bytes, NoGenerator))

\* no step of a reader changes the buffer or the input of serialize
ReadersKeepBuffer == wState # "ready" => UNCHANGED <<bytes, features, adjacencyList>>

\* C26: deserialize and deserializeGraphEdges never write to the input
\* buffer, and under every interleaving of the steps of deserialize and of
\* two or more generators of deserializeGraphEdges over the same buffer, each
\* generator yields a prefix of, and on completion exactly, the ordered edge
\* sequence a generator yields when it is run alone.
C26_ConcurrentReaders == [](ReadersAgree) /\ [][ReadersKeepBuffer]_vars

\* one generator is between two edges while another has finished
C26_Witness ==
    /\ wState = "written" /\ sState = "suspended" /\ Len(sYielded) = 1
    /\ others[2].state = "done" /\ Len(others[2].yielded) = 2
    /\ others[2].yielded[1] = sYielded[1]
    /\ others[2].yielded[2].properties # <<>>
    /\ bState = "features"

\* the j-th of the column descriptors that start at `at`: its name-length
\* field is the byte length of the name, which is not empty and has at most
\* 65,535 bytes, and the name bytes follow the field
RECURSIVE DescriptorsWellFormed(_, _, _, _)
DescriptorsWellFormed(b, at, cols, j) ==
    IF j > Len(cols) THEN at = FirstRecord(b)
    ELSE /\ getUint16(b, at) = Len(Utf8Encode(cols[j].name))
         /\ getUint16(b, at) >= 1 /\ getUint16(b, at) <= 65535
         /\ Slice(b, at + 2, at + 2 + getUint16(b, at)) = Utf8Encode(cols[j].name)
         /\ DescriptorsWellFormed(b, at + 2 + getUint16(b, at) + 1, cols, j + 1)

\* C27: every column descriptor serialize writes has a non-empty name of at
\* most 65,535 UTF-8 bytes, its u16 name-length field is the number of name
\* bytes that follow it, and the header's u16 column count is the number of
\* descriptors written (they end where the first edge record starts).
C27_ColumnDescriptors ==
    WrittenGraph =>
        /\ getUint16(bytes, GraphOffset + 8) = Len(introspectEdgeColumns(adjacencyList.edges).cols)
        /\ DescriptorsWellFormed(bytes, GraphOffset + 10,
                                 introspectEdgeColumns(adjacencyList.edges).cols, 1)

\* whether the bytes read for the edge of the record at `at` (r: the edge and
\* the end of the bytes read) end within the record's declared property
\* region, the size - 8 bytes after from and to
InsideRegion(at, r) ==
    r.reach <= Max(at + 12, Min(at + SIZE_PREFIX_LEN + sizeAt(bytes, at), Length(bytes)))

\* every edge read came from bytes of its own record
StaysInside(edges, columns) ==
    \A i \in 1..Len(edges) :
        InsideRegion(RecordStart(bytes, FirstRecord(bytes), i),
                     EdgeAt(RecordStart(bytes, FirstRecord(bytes), i), columns))

\* C28: while an edge is decoded, every byte the property decoder reads
\* (ordinal, length prefix, value) lies inside the edge's declared property
\* region: no byte of the following edge record is taken for a property of
\* this edge, for every edge the batch reader returns and every edge the
\* streaming reader yields.
C28_DecodingStaysInside ==
    /\ bState = "done" => StaysInside(bEdges, bMeta.edgeColumns)
    /\ StaysInside(sYielded, sColumns)

\* whether the ordinals are strictly ascending and below n
StrictlyAscending(ords, n) ==
    /\ \A a \in 1..Len(ords) : ords[a] >= 0 /\ ords[a] < n
    /\ \A a \in 1..(Len(ords) - 1) : ords[a] < ords[a + 1]

\* the property entries of a record (region): whole entries whose ordinals ascend
RecordAscending(region, cols) ==
    /\ EntriesFill(region, 0, cols)
    /\ StrictlyAscending(EntryOrdinals(region, 0, cols), Len(cols))

\* every record written for the edges, cols being the columns of the header
RecordsAscending(edges, cols) ==
    \A i \in 1..Len(edges) : RecordAscending(PropertyRegion(bytes, i), cols)

\* C29: in every edge record serialize writes, the column ordinals of the
\* property entries are strictly ascending: each ordinal appears at most once
\* in an edge and every ordinal is below the header's column count.
C29_AscendingOrdinals ==
    WrittenGraph =>
        RecordsAscending(adjacencyList.edges,
                         HeaderColumns(bytes, GraphOffset + 10,
                                       getUint16(bytes, GraphOffset + 8)))

C29_Witness ==
    /\ WrittenGraph /\ Len(adjacencyList.edges) = 2
    /\ getUint16(bytes, GraphOffset + 8) = 2
    /\ EntryOrdinals(PropertyRegion(bytes, 1), 0, HeaderCols) = <<0, 1>>
    /\ EntryOrdinals(PropertyRegion(bytes, 2), 0, HeaderCols) = <<1>>
    /\ sState = "done"

\* "Unknown property type"
TxtUnknownProperty == <<85, 110, 107, 110, 111, 119, 110, 32, 112, 114, 111, 112, 101, 114, 116, 121, 32, 116, 121, 112, 101>>

\* whether the first edge with a non-empty property map carries a value that
\* has no column type (a function, undefined)
InferenceFails(edges) ==
    \E i \in FirstPropertied(edges) : \E j \in 1..Len(edges[i].properties) :
        edges[i].properties[j].val.t \in {"fn", "undef"}

\* the message names this failure and none of the others
ReportsOnly(msg, phrase) ==
    /\ Contains(msg, phrase)
    /\ \A other \in {TxtUnknownProperty, TxtInvalidFrom, TxtInvalidTo, TxtSelfLoops} \ {phrase} :
          ~Contains(msg, other)

\* the check an invalid edge fails first: from range, then to range, then self-loop
CheckReported(e, featureCount) ==
    IF e.from < 0 \/ e.from >= featureCount THEN TxtInvalidFrom
    ELSE IF e.to < 0 \/ e.to >= featureCount THEN TxtInvalidTo
    ELSE TxtSelfLoops

\* the position of the first edge that fails the validation
FirstInvalidIndex ==
    Least({i \in 1..Len(adjacencyList.edges) :
              ~ValidEdge(adjacencyList.edges[i], Len(features))})

\* whether the properties of the edges before the k-th are encoded without an error
EncodedBefore(edges, k, columns) ==
    \A i \in 1..(k - 1) : encodeEdgeProperties(edges[i], columns).err.kind = "none"

\* C30: serialize infers the schema before it validates any edge: a value
\* without a column type in the first edge with properties is reported
\* whatever the indices of the edges, those before it included.  Then the
\* edges are handled in list order and the error is that of the first invalid
\* edge (the edges before it being written without an error); of one edge the
\* from range is checked before the to range, and that before the self-loop,
\* so an edge from 2 to 2 between two features reports an invalid 'from'.
C30_OrderOfChecks ==
    (adjacencyList.present /\ wState # "ready") =>
        /\ InferenceFails(adjacencyList.edges) =>
              (wState = "failed" /\ ReportsOnly(wErr.msg, TxtUnknownProperty))
        /\ (~InferenceFails(adjacencyList.edges) /\ ~AllValid
               /\ EncodedBefore(adjacencyList.edges, FirstInvalidIndex,
                                introspectEdgeColumns(adjacencyList.edges))) =>
              /\ wState = "failed"
              /\ ReportsOnly(wErr.msg, CheckReported(FirstInvalid, Len(features)))
              /\ MessageNames(FirstInvalid, wErr.msg, TxtSelfLoops)

\* an invalid edge without properties before an edge whose value has no type
C30_Witness ==
    /\ wState = "failed" /\ Len(features) = 2 /\ Len(adjacencyList.edges) = 2
    /\ adjacencyList.edges[1].from = 2 /\ adjacencyList.edges[1].to = 2
    /\ ~adjacencyList.edges[1].hasProps
    /\ ValidEdge(adjacencyList.edges[2], 2)
    /\ adjacencyList.edges[2].properties = <<Prop(KeyW, VFn)>>
    /\ Contains(wErr.msg, TxtUnknownProperty) /\ Contains(wErr.msg, TxtFunction)

====
